---- MODULE Spec2Model ----
(***************************************************************************)
(* HouseDvr: the transfer queue of housedvr_transfer.c, with the part of   *)
(* the local archive (files, directories) and of the echttp client         *)
(* exchange that its handlers read and write.                              *)
(*                                                                         *)
(* A path is kept as a record [chars, pad]: the C string made of the      *)
(* characters of chars followed by pad filler characters (a filler is a    *)
(* plain character, neither '.' nor '/'). This keeps a 300-character path  *)
(* small while the length tests and the truncation of snprintf are         *)
(* computed on its real length.                                            *)
(*                                                                         *)
(* The second part is the registry of housedvr_feed.c: the table of the    *)
(* CCTV servers, the table of the cameras, the timers of the discovery     *)
(* rounds, of the cleanup and of the watchdogs, and the /check and /status *)
(* requests in flight. Its clock counts seconds.                           *)
(***************************************************************************)
EXTENDS Integers, Sequences, FiniteSets, TLC

VARIABLES TransferQueue, TransferConsumer, TransferProducer,
          lastcheck, files, dirs, request, crashed, order

\* housedvr_feed.c: the clock (time(0)), the two tables, the static timers,
\* the requests in flight (submitted), the peers that housediscovered()
\* enumerates (discovered), what the last handler did (last), the times
\* of the past rounds (past) and the period of the checks (-dvr-check).
VARIABLES now, Servers, FeedTable, HouseFeedNextFullScan,
          HouseFeedStateChanged, StartPeriodEnd, NextCleanup, NextDiscovery,
          FeedWatchDog, ServerWatchDog, submitted, discovered, last, past,
          HouseFeedCheckPeriod

feedvars == <<now, Servers, FeedTable, HouseFeedNextFullScan,
              HouseFeedStateChanged, StartPeriodEnd, NextCleanup,
              NextDiscovery, FeedWatchDog, ServerWatchDog, submitted,
              discovered, last, past, HouseFeedCheckPeriod>>

\* housedvr_store.c: the threshold of the cleanup (-dvr-clean), the two
\* statics of housedvr_store_background, the links Today and Yesterday of
\* the archive root, and the file system that holds the archive (disk).
VARIABLES HouseDvrMaxSpace, StoreLastCheck, StoreLastDay, links, disk

storevars == <<HouseDvrMaxSpace, StoreLastCheck, StoreLastDay, links, disk>>

vars == <<TransferQueue, TransferConsumer, TransferProducer,
          lastcheck, files, dirs, request, crashed, order,
          now, Servers, FeedTable, HouseFeedNextFullScan,
          HouseFeedStateChanged, StartPeriodEnd, NextCleanup, NextDiscovery,
          FeedWatchDog, ServerWatchDog, submitted, discovered, last, past,
          HouseFeedCheckPeriod,
          HouseDvrMaxSpace, StoreLastCheck, StoreLastDay, links, disk>>

(***************************************************************************)
(* Program constants.                                                      *)
(***************************************************************************)
TRANSFER_STATE_EMPTY == 0
TRANSFER_STATE_IDLE == 1
TRANSFER_STATE_ACTIVE == 2
TRANSFER_STATE_DONE == 3
TRANSFER_STATE_FAILED == 4

\* sizeof(path) in struct TransferFile, sizeof(fullpath) in notify, and the
\* length of the default archive root "/storage/motion/videos".
PathBufSize == 256
FullPathSize == 512
RootLen == 22

(***************************************************************************)
(* Bounds of the model.                                                    *)
(***************************************************************************)
\* TransferQueueSize: the code allocates at least 16 slots; the model keeps
\* the ring small so that it fills up and wraps around.
TransferQueueSize == 3
\* The longest response body (Content-Length) a peer sends.
MaxBody == 2
\* How many echttp_client() calls may fail in a row within one handler.
MaxClientError == 1

(***************************************************************************)
(* Paths.                                                                  *)
(***************************************************************************)
MkPath(chars, pad) == [chars |-> chars, pad |-> pad]

EmptyPath == MkPath(<<>>, 0)
PathA == MkPath(<<"d", "/", "a">>, 0)
PathDots == MkPath(<<"d", "/", ".", ".", "/", "c">>, 0)
PathLong == MkPath(<<"d", "/", "l">>, 297)

PathLen(path) == Len(path.chars) + path.pad

\* A check that only looks at the start of the path.
HasDotDotPrefix(path) ==
    /\ Len(path.chars) >= 2
    /\ path.chars[1] = "." /\ path.chars[2] = "."

\* strstr (path, ".."): the filler characters are not dots.
HasDotDot(path) ==
    \E i \in 1..(Len(path.chars) - 1) :
        path.chars[i] = "." /\ path.chars[i + 1] = "."

\* snprintf (cursor->path, sizeof(cursor->path), "%s", path): at most
\* PathBufSize - 1 characters are kept.
StoredPath(path) ==
    IF PathLen(path) < PathBufSize THEN path
    ELSE IF Len(path.chars) >= PathBufSize - 1
         THEN MkPath(SubSeq(path.chars, 1, PathBufSize - 1), 0)
         ELSE MkPath(path.chars, PathBufSize - 1 - Len(path.chars))

\* The directories that the loop of notify creates: one per '/' of the path,
\* named by the characters before it (an empty prefix is the root itself).
\* The character at position j (from 1) is reached only when the buffer did
\* not overflow on the characters before it.
PathDirs(path) ==
    {SubSeq(path.chars, 1, i - 1) :
        i \in {j \in 2..Len(path.chars) :
                  path.chars[j] = "/" /\ RootLen + j < FullPathSize}}

\* The directory that holds the file of a path.
ParentDirs(path) ==
    LET slashes == {j \in 2..Len(path.chars) : path.chars[j] = "/"}
    IN  IF slashes = {} THEN {}
        ELSE {SubSeq(path.chars, 1,
                     (CHOOSE j \in slashes : \A k \in slashes : k <= j) - 1)}

\* fullpath = root "/" path fits: neither of the two overflow returns fires.
FullPathFits(path) ==
    /\ RootLen + 1 < FullPathSize
    /\ RootLen + 1 + PathLen(path) < FullPathSize

(***************************************************************************)
(* The inputs of the model.                                                *)
(***************************************************************************)
Paths == {PathA, PathLong, PathDots, EmptyPath}
Sizes == {1, 2}
Feeds == {"http://p1"}
Notifications == (({PathA} \X Sizes) \cup ({PathLong, PathDots, EmptyPath} \X {1}))
FileNames == Paths \cup {StoredPath(p) : p \in Paths}

NoFile == <<-1>>
NoRequest == [phase |-> "none"]

Zeros(n) == [i \in 1..n |-> 0]

Indexes == 0..(TransferQueueSize - 1)

EmptySlot ==
    [state |-> TRANSFER_STATE_EMPTY, size |-> 0, offset |-> 0,
     feed |-> "", path |-> EmptyPath]

housedvr_transfer_next(index) ==
    IF index + 1 >= TransferQueueSize THEN 0 ELSE index + 1


(***************************************************************************)
(* housedvr_transfer_notify.                                               *)
(***************************************************************************)
RECURSIVE ScanHistory(_, _, _, _, _, _)
\* The first loop of notify, from index up to (excluding) consumer.
ScanHistory(q, index, consumer, path, size, cached) ==
    IF index = consumer THEN [res |-> "fall", cached |-> cached]
    ELSE IF q[index].path # path
    THEN ScanHistory(q, housedvr_transfer_next(index), consumer,
                     path, size, cached)
    ELSE IF q[index].state = TRANSFER_STATE_DONE
    THEN IF q[index].size = size
         THEN [res |-> "return", cached |-> TRUE]
         ELSE ScanHistory(q, housedvr_transfer_next(index), consumer,
                          path, size, TRUE)
    ELSE IF q[index].state = TRANSFER_STATE_FAILED
    THEN ScanHistory(q, housedvr_transfer_next(index), consumer,
                     path, size, TRUE)
    ELSE [res |-> "crash", cached |-> TRUE]

RECURSIVE ScanPending(_, _, _, _, _, _)
\* The second loop of notify, from index up to (excluding) producer.
ScanPending(q, index, producer, path, size, cached) ==
    IF index = producer THEN [res |-> "fall", cached |-> cached, at |-> index]
    ELSE IF q[index].path # path
    THEN ScanPending(q, housedvr_transfer_next(index), producer,
                     path, size, cached)
    ELSE IF q[index].state = TRANSFER_STATE_ACTIVE
    THEN IF q[index].size = size
         THEN [res |-> "return", cached |-> TRUE, at |-> index]
         ELSE ScanPending(q, housedvr_transfer_next(index), producer,
                          path, size, TRUE)
    ELSE IF q[index].state = TRANSFER_STATE_IDLE
    THEN [res |-> "update", cached |-> TRUE, at |-> index]
    ELSE [res |-> "crash", cached |-> TRUE, at |-> index]

\* A test of the local file that does not look at its size.
LocalExists(fs, path, size) ==
    path \in DOMAIN fs /\ fs[path] # NoFile

\* stat (fullpath) succeeds and st_size equals the notified size.
LocalWhole(fs, path, size) ==
    /\ path \in DOMAIN fs
    /\ fs[path] # NoFile
    /\ Len(fs[path]) = size

\* A full test that tells full one slot too late, when the producer has
\* caught up with the consumer.
QueueFullLate(producer, consumer) ==
    producer = consumer /\ producer # 0

\* next(TransferProducer) == TransferConsumer: the queue is full.
QueueFull(producer, consumer) ==
    housedvr_transfer_next(producer) = consumer

\* A slot appended already ACTIVE.
NewSlotActive(feed, path, size) ==
    [state |-> TRANSFER_STATE_ACTIVE, size |-> size, offset |-> 0,
     feed |-> feed, path |-> StoredPath(path)]

NewSlot(feed, path, size) ==
    [state |-> TRANSFER_STATE_IDLE, size |-> size, offset |-> 0,
     feed |-> feed, path |-> StoredPath(path)]

\* What one call of notify does to the queue, the producer and the archive
\* directories. how names the return that was taken.
NotifyResult(q, consumer, producer, fs, ds, feed, path, size) ==
    LET same == [queue |-> q, producer |-> producer, dirs |-> ds,
                 crash |-> FALSE, appended |-> FALSE, how |-> "same"]
        first == IF producer = consumer
                 THEN housedvr_transfer_next(producer) ELSE producer
        h == ScanHistory(q, first, consumer, path, size, FALSE)
        p == ScanPending(q, consumer, producer, path, size, h.cached)
        made == ds \cup PathDirs(path)
        next == housedvr_transfer_next(producer)
    IN  IF h.res = "crash" THEN [same EXCEPT !.crash = TRUE, !.how = "crash"]
        ELSE IF h.res = "return" THEN [same EXCEPT !.how = "done"]
        ELSE IF p.res = "crash"
        THEN [same EXCEPT !.crash = TRUE, !.how = "crash"]
        ELSE IF p.res = "return" THEN [same EXCEPT !.how = "active"]
        ELSE IF p.res = "update"
        THEN [same EXCEPT !.queue = [q EXCEPT ![p.at].size = size],
                          !.how = "idle"]
        ELSE IF HasDotDot(path) THEN [same EXCEPT !.how = "dotdot"]
        ELSE IF RootLen + 1 >= FullPathSize
        THEN [same EXCEPT !.how = "overflow"]
        ELSE IF ~FullPathFits(path)
        THEN [same EXCEPT !.dirs = made, !.how = "overflow"]
        ELSE IF ~p.cached /\ LocalWhole(fs, path, size)
        THEN [same EXCEPT !.dirs = made, !.how = "local"]
        ELSE IF QueueFull(producer, consumer)
        THEN [same EXCEPT !.dirs = made, !.how = "full"]
        ELSE IF q[producer].state \in
                    {TRANSFER_STATE_ACTIVE, TRANSFER_STATE_IDLE}
        THEN [same EXCEPT !.dirs = made, !.crash = TRUE, !.how = "crash"]
        ELSE [queue |-> [q EXCEPT ![producer] = NewSlot(feed, path, size)],
              producer |-> next, dirs |-> made,
              crash |-> FALSE, appended |-> TRUE, how |-> "append"]

\* The order in which the slots were last appended, oldest first (a history
\* of the run, not a field of the program).
Appended(seq, index) ==
    Append(SelectSeq(seq, LAMBDA i : i # index), index)

housedvr_transfer_notify(feed, path, size) ==
    /\ ~crashed
    /\ LET r == NotifyResult(TransferQueue, TransferConsumer,
                             TransferProducer, files, dirs, feed, path, size)
       IN  /\ TransferQueue' = r.queue
           /\ TransferProducer' = r.producer
           /\ dirs' = r.dirs
           /\ crashed' = r.crash
           /\ order' = IF r.appended
                        THEN Appended(order, TransferProducer) ELSE order
    /\ UNCHANGED <<TransferConsumer, lastcheck, files, request>>
    /\ UNCHANGED feedvars
    /\ UNCHANGED storevars

(***************************************************************************)
(* The local archive as the transfer handlers use it. A file is the        *)
(* sequence of its bytes; the i-th byte of a response body is the number   *)
(* i, and the bytes of a file that was there before are 0.                 *)
(***************************************************************************)
\* write (fd, data, length) at position pos (a gap reads as zeros).
WriteAt(content, pos, bytes) ==
    LET end == IF pos + Len(bytes) > Len(content)
               THEN pos + Len(bytes) ELSE Len(content)
    IN  [i \in 1..end |->
            IF i > pos /\ i <= pos + Len(bytes) THEN bytes[i - pos]
            ELSE IF i <= Len(content) THEN content[i] ELSE 0]

\* The bytes of the response body from position first, count of them.
Body(first, count) == [i \in 1..count |-> first + i - 1]

\* An open that never truncates: status 200 is treated like 206, and the
\* file is created when it is missing.
OpenKeep(fs, ds, item, status) ==
    IF status \in {200, 206}
    THEN IF fs[item.path] # NoFile
         THEN [ok |-> TRUE, pos |-> 0, files |-> fs]
         ELSE [ok |-> TRUE, pos |-> 0,
               files |-> [fs EXCEPT ![item.path] = <<>>]]
    ELSE [ok |-> FALSE, pos |-> 0, files |-> fs]

\* housedvr_transfer_open: the descriptor (ok, the position after lseek)
\* and the archive after the open.
housedvr_transfer_open(fs, ds, item, status) ==
    IF status = 206
    THEN IF fs[item.path] # NoFile
         THEN [ok |-> TRUE, pos |-> item.offset, files |-> fs]
         ELSE [ok |-> FALSE, pos |-> 0, files |-> fs]
    ELSE IF status = 200
    THEN IF ParentDirs(item.path) \subseteq ds
         THEN [ok |-> TRUE, pos |-> 0,
               files |-> [fs EXCEPT ![item.path] = <<>>]]
         ELSE [ok |-> FALSE, pos |-> 0, files |-> fs]
    ELSE [ok |-> FALSE, pos |-> 0, files |-> fs]

\* write (fd, ...) on the descriptor that open returned: nothing is
\* written through an invalid descriptor.
WriteFd(opened, path, bytes) ==
    IF opened.ok
    THEN [opened.files EXCEPT ![path] = WriteAt(@, opened.pos, bytes)]
    ELSE opened.files

(***************************************************************************)
(* housedvr_transfer_start and housedvr_transfer_end call each other: a    *)
(* request that cannot be submitted ends its transfer and starts the next. *)
(* errs is the number of echttp_client() calls that fail from here on.     *)
(***************************************************************************)
\* A submission whose origin is the slot behind the one that was started.
SubmittedBehind(index, offset) ==
    [phase |-> "sent", origin |-> housedvr_transfer_next(index),
     range |-> offset]

Submitted(index, offset) ==
    [phase |-> "sent", origin |-> index, range |-> offset]

RECURSIVE StartResult(_, _, _, _, _)
RECURSIVE EndResult(_, _, _, _, _, _)

StartResult(q, consumer, producer, req, errs) ==
    LET same == [queue |-> q, consumer |-> consumer, request |-> req,
                 crash |-> FALSE]
        active == [q EXCEPT ![consumer].state = TRANSFER_STATE_ACTIVE]
    IN  IF consumer = producer THEN same
        ELSE IF q[consumer].state = TRANSFER_STATE_ACTIVE THEN same
        ELSE IF q[consumer].state # TRANSFER_STATE_IDLE
        THEN [same EXCEPT !.crash = TRUE]
        ELSE IF errs > 0
        THEN EndResult(active, consumer, producer, req, 500, errs - 1)
        ELSE [queue |-> active, consumer |-> consumer,
              request |-> Submitted(consumer, q[consumer].offset),
              crash |-> FALSE]

\* An end that leaves TransferConsumer where it is.
EndResultStuck(q, consumer, producer, req, status, errs) ==
    IF q[consumer].state # TRANSFER_STATE_ACTIVE
    THEN [queue |-> q, consumer |-> consumer, request |-> req,
          crash |-> TRUE]
    ELSE StartResult(
            [q EXCEPT ![consumer].state =
                 IF status \div 100 = 2
                 THEN TRANSFER_STATE_DONE ELSE TRANSFER_STATE_FAILED],
            consumer, producer, req, errs)

\* An end that moves TransferConsumer two slots ahead.
EndResultSkip(q, consumer, producer, req, status, errs) ==
    IF q[consumer].state # TRANSFER_STATE_ACTIVE
    THEN [queue |-> q, consumer |-> consumer, request |-> req,
          crash |-> TRUE]
    ELSE StartResult(
            [q EXCEPT ![consumer].state =
                 IF status \div 100 = 2
                 THEN TRANSFER_STATE_DONE ELSE TRANSFER_STATE_FAILED],
            housedvr_transfer_next(housedvr_transfer_next(consumer)),
            producer, req, errs)

\* An end for which only status 200 is a success.
EndResultOnly200(q, consumer, producer, req, status, errs) ==
    IF q[consumer].state # TRANSFER_STATE_ACTIVE
    THEN [queue |-> q, consumer |-> consumer, request |-> req,
          crash |-> TRUE]
    ELSE StartResult(
            [q EXCEPT ![consumer].state =
                 IF status = 200
                 THEN TRANSFER_STATE_DONE ELSE TRANSFER_STATE_FAILED],
            housedvr_transfer_next(consumer), producer, req, errs)

EndResult(q, consumer, producer, req, status, errs) ==
    IF q[consumer].state # TRANSFER_STATE_ACTIVE
    THEN [queue |-> q, consumer |-> consumer, request |-> req,
          crash |-> TRUE]
    ELSE StartResult(
            [q EXCEPT ![consumer].state =
                 IF status \div 100 = 2
                 THEN TRANSFER_STATE_DONE ELSE TRANSFER_STATE_FAILED],
            housedvr_transfer_next(consumer), producer, req, errs)

\* A start that always finds the queue busy.
StartBusy(errs) ==
    [queue |-> TransferQueue, consumer |-> TransferConsumer,
     request |-> request, crash |-> FALSE]

housedvr_transfer_start(errs) ==
    StartResult(TransferQueue, TransferConsumer, TransferProducer,
                request, errs)

housedvr_transfer_end(status, errs) ==
    EndResult(TransferQueue, TransferConsumer, TransferProducer,
              NoRequest, status, errs)

\* housedvr_transfer_background (now): at most one start per second. The
\* handler only compares lastcheck with now, so lastcheck is kept as "now"
\* (equal to the current second) or "past" (any other value, 0 at start).
BackgroundResult(errs) ==
    IF lastcheck = "now"
    THEN [queue |-> TransferQueue, consumer |-> TransferConsumer,
          request |-> request, crash |-> FALSE]
    ELSE housedvr_transfer_start(errs)

housedvr_transfer_background ==
    /\ ~crashed
    /\ \E errs \in 0..MaxClientError :
          LET r == BackgroundResult(errs)
          IN  /\ TransferQueue' = r.queue
              /\ TransferConsumer' = r.consumer
              /\ request' = r.request
              /\ crashed' = r.crash
    /\ lastcheck' = "now"
    /\ UNCHANGED <<TransferProducer, files, dirs, order>>
    /\ UNCHANGED feedvars
    /\ UNCHANGED storevars

\* The wall clock (time(0)) moves on to the next second.
ClockTick ==
    /\ ~crashed
    /\ lastcheck' = "past"
    /\ UNCHANGED <<TransferQueue, TransferConsumer, TransferProducer,
                   files, dirs, request, crashed, order>>
    /\ UNCHANGED feedvars
    /\ UNCHANGED storevars

(***************************************************************************)
(* The response callbacks. echttp calls housedvr_transfer_ready when the   *)
(* header of the response is in, with the part of the body received so     *)
(* far, streams to the descriptor given to echttp_transfer, and calls      *)
(* housedvr_transfer_complete at the end with what is left of the body.    *)
(***************************************************************************)
Statuses == {200, 206, 302, 404}

\* The exchange once the header is in: complete will be given tail bytes
\* of the body, from position first (1 when there is no tail).
\* length is the Content-Length of the response, -1 when it has none.
InBody(req, status, length, first, tail) ==
    [phase |-> "body", origin |-> req.origin, range |-> req.range,
     status |-> status, length |-> length,
     first |-> IF tail > 0 THEN first ELSE 1, tail |-> tail]

\* The exchange while echttp streams count bytes of the body, from position
\* first, to the descriptor: the file of path, at position pos.
InStream(req, status, length, path, pos, first, count) ==
    [phase |-> "stream", origin |-> req.origin, range |-> req.range,
     status |-> status, length |-> length,
     path |-> path, pos |-> pos, first |-> first, count |-> count]

\* housedvr_transfer_ready (origin, status, data, length), where the
\* response has (or lacks) a Content-Length of total and length = early.
ReadyResult(q, consumer, fs, ds, req, status, hasLength, total, early) ==
    LET item == q[consumer]
        length == IF hasLength THEN total ELSE -1
        skip == [files |-> fs, crash |-> FALSE,
                 request |-> InBody(req, status, length,
                                    early + 1, total - early)]
        opened == housedvr_transfer_open(fs, ds, item, status)
        written == IF early > 0
                   THEN WriteFd(opened, item.path, Body(1, early))
                   ELSE opened.files
    IN  IF status \div 100 # 2 THEN skip
        ELSE IF ~hasLength THEN skip
        ELSE IF req.origin # consumer THEN [skip EXCEPT !.crash = TRUE]
        ELSE IF item.state # TRANSFER_STATE_ACTIVE
        THEN [skip EXCEPT !.crash = TRUE]
        ELSE IF ~opened.ok THEN skip
        ELSE IF total > early
        THEN [files |-> written, crash |-> FALSE,
              request |-> InStream(req, status, length, item.path,
                                   opened.pos + early, early + 1,
                                   total - early)]
        ELSE [files |-> written, crash |-> FALSE,
              request |-> InBody(req, status, length, early + 1, 0)]

housedvr_transfer_ready(status, hasLength, total, early) ==
    /\ ~crashed
    /\ request.phase = "sent"
    /\ early <= total
    /\ (status \div 100 # 2) => (total = 0 /\ hasLength)
    /\ LET r == ReadyResult(TransferQueue, TransferConsumer, files, dirs,
                            request, status, hasLength, total, early)
       IN  /\ files' = r.files
           /\ crashed' = r.crash
           /\ request' = r.request
    /\ UNCHANGED <<TransferQueue, TransferConsumer, TransferProducer,
                   lastcheck, dirs, order>>
    /\ UNCHANGED feedvars
    /\ UNCHANGED storevars

\* echttp_transfer (fd, total-length): echttp writes the rest of the body
\* to the descriptor and closes it.
echttp_transfer ==
    /\ ~crashed
    /\ request.phase = "stream"
    /\ files' = IF files[request.path] # NoFile
                THEN [files EXCEPT ![request.path] =
                         WriteAt(@, request.pos,
                                 Body(request.first, request.count))]
                ELSE files
    /\ request' = InBody(request, request.status, request.length,
                         request.first + request.count, 0)
    /\ UNCHANGED <<TransferQueue, TransferConsumer, TransferProducer,
                   lastcheck, dirs, crashed, order>>
    /\ UNCHANGED feedvars
    /\ UNCHANGED storevars

\* housedvr_transfer_complete once echttp_redirected() returned status
\* (not 0), with length = tail bytes of the body from position first.
CompleteResult(q, consumer, producer, fs, ds, req, status, first, tail, errs) ==
    LET item == q[consumer]
        crash == [queue |-> q, consumer |-> consumer, request |-> req,
                  crash |-> TRUE, files |-> fs]
        written == IF status \div 100 = 2 /\ tail > 0
                   THEN WriteFd(housedvr_transfer_open(fs, ds, item, status),
                                item.path, Body(first, tail))
                   ELSE fs
        ended == EndResult(q, consumer, producer, NoRequest, status, errs)
    IN  IF req.origin # consumer THEN crash
        ELSE IF item.state # TRANSFER_STATE_ACTIVE THEN crash
        ELSE [queue |-> ended.queue, consumer |-> ended.consumer,
              request |-> ended.request, crash |-> ended.crash,
              files |-> written]

Completed(status, first, tail) ==
    \E errs \in 0..MaxClientError :
        LET r == CompleteResult(TransferQueue, TransferConsumer,
                                TransferProducer, files, dirs, request,
                                status, first, tail, errs)
        IN  /\ TransferQueue' = r.queue
            /\ TransferConsumer' = r.consumer
            /\ request' = r.request
            /\ crashed' = r.crash
            /\ files' = r.files

\* The response is a redirect that echttp_redirected() follows (it returns
\* 0): the request is submitted again with the same handlers.
Redirected(req) ==
    req.status = 302

housedvr_transfer_complete ==
    /\ ~crashed
    /\ request.phase = "body"
    /\ IF Redirected(request)
       THEN /\ request' = Submitted(request.origin, request.range)
            /\ UNCHANGED <<TransferQueue, TransferConsumer, crashed, files>>
       ELSE Completed(request.status, request.first, request.tail)
    /\ UNCHANGED <<TransferProducer, lastcheck, dirs, order>>
    /\ UNCHANGED feedvars
    /\ UNCHANGED storevars

\* The exchange fails before any response header (no connection): echttp
\* calls housedvr_transfer_complete with status 500 and no data.
housedvr_transfer_failed ==
    /\ ~crashed
    /\ request.phase = "sent"
    /\ Completed(500, 1, 0)
    /\ UNCHANGED <<TransferProducer, lastcheck, dirs, order>>
    /\ UNCHANGED feedvars
    /\ UNCHANGED storevars

(***************************************************************************)
(* The registry of housedvr_feed.c.                                        *)
(***************************************************************************)
\* The delays of the registry, in seconds.
PruneDelay == 180
WatchDogDelay == 300
CleanupPeriod == 10
StartPeriod == 60
StartPollPeriod == 10
\* HouseFeedCheckPeriod without the option -dvr-check.
DefaultCheckPeriod == 30
FullScanPeriod == 300
RushDelay == 10
StableAge == 60
\* sizeof(name) in ServerRegistration and of device[] in the status scan,
\* sizeof(adminurl), sizeof(server) and sizeof(url).
NameBufSize == 128
UrlBufSize == 256

\* time(0) when the process starts: any value that is far from 0.
Epoch == 1000

\* Names (of servers, cameras, URLs) are strings kept like the paths.
NoName == EmptyPath
Name(chars) == MkPath(chars, 0)

\* snprintf (buffer, size, "%s", name).
Stored(name, size) ==
    IF PathLen(name) < size THEN name
    ELSE IF Len(name.chars) >= size - 1
         THEN MkPath(SubSeq(name.chars, 1, size - 1), 0)
         ELSE MkPath(name.chars, size - 1 - Len(name.chars))

\* snprintf (device, sizeof(device), "%s:%s", feedname, key): the name of
\* a camera. (A host name with filler characters fills the buffer.)
DeviceName(host, key) ==
    IF host.pad = 0
    THEN Stored(MkPath(host.chars \o <<":">> \o key.chars, key.pad),
                NameBufSize)
    ELSE Stored(host, NameBufSize)

\* atoi (space), then the unit: the first letter that follows.
AvailableMB(space) ==
    IF space.unit = "G" THEN space.number * 1024
    ELSE IF space.unit = "M" THEN space.number
    ELSE 0

SetMax(S) == CHOOSE x \in S : \A y \in S : y <= x
SetMin(S) == CHOOSE x \in S : \A y \in S : x <= y

\* A comparison with the stamp of any entry, the pruned ones included.
UptodateStale(servers, name, updated) ==
    \E i \in 1..Len(servers) : servers[i].updated = updated

\* housedvr_feed_uptodate (name, updated).
housedvr_feed_uptodate(servers, name, updated) ==
    LET match == {i \in 1..Len(servers) :
                     servers[i].name # NoName /\ servers[i].name = name}
    IN  match # {} /\ servers[SetMax(match)].updated = updated

\* The entry that housedvr_feed_server leaves in slot i (lines 173-185).
ServerEntry(old, name, updated, adminurl, space, t, isnew) ==
    [name |-> IF isnew THEN Stored(name, NameBufSize) ELSE old.name,
     updated |-> IF updated # 0 THEN updated ELSE old.updated,
     adminurl |-> Stored(adminurl, UrlBufSize),
     available |-> AvailableMB(space),
     timestamp |-> t]

\* housedvr_feed_server (name, updated, adminurl, space) at time t. The
\* entry found, else the free entry of lowest index, else a new entry:
\* realloc() does not clear it, so its updated field holds any value
\* (garbage) until a status with a stamp is received.
housedvr_feed_server(servers, name, updated, adminurl, space, t, garbage) ==
    LET all == 1..Len(servers)
        match == {i \in all :
                     servers[i].name # NoName /\ servers[i].name = name}
        free == {i \in all : servers[i].name = NoName}
        blank == [name |-> NoName, updated |-> garbage, adminurl |-> NoName,
                  available |-> 0, timestamp |-> 0]
    IN  IF match # {}
        THEN [servers |-> [servers EXCEPT ![SetMax(match)] =
                 ServerEntry(@, name, updated, adminurl, space, t, FALSE)],
              new |-> 0]
        ELSE IF free # {}
        THEN [servers |-> [servers EXCEPT ![SetMin(free)] =
                 ServerEntry(@, name, updated, adminurl, space, t, TRUE)],
              new |-> 1]
        ELSE [servers |-> Append(servers,
                 ServerEntry(blank, name, updated, adminurl, space, t, TRUE)),
              new |-> 1]

\* server == NULL in housedvr_feed_register: a name restored from the
\* saved state.
NoServer == [chars |-> <<"NULL">>, pad |-> -1]

\* housedvr_feed_register (name, server, url) at time t: the table, the
\* returned value and whether HouseFeedStateChanged was set.
housedvr_feed_register(feeds, name, server, url, t) ==
    LET match == {i \in 1..Len(feeds) : feeds[i].name = name}
    IN  IF match = {}
        THEN IF server = NoServer
             THEN [feeds |-> Append(feeds,
                      [name |-> name, server |-> NoName, url |-> NoName,
                       timestamp |-> 0]),
                   new |-> 0, changed |-> FALSE]
             ELSE [feeds |-> Append(feeds,
                      [name |-> name, server |-> Stored(server, UrlBufSize),
                       url |-> Stored(url, UrlBufSize), timestamp |-> t]),
                   new |-> 1, changed |-> TRUE]
        ELSE IF server = NoServer
             THEN [feeds |-> feeds, new |-> 0, changed |-> FALSE]
             ELSE LET i == SetMax(match)
                  IN  [feeds |-> [feeds EXCEPT ![i] =
                          [name |-> @.name,
                           server |-> Stored(server, UrlBufSize),
                           url |-> Stored(url, UrlBufSize),
                           timestamp |-> t]],
                       new |-> IF feeds[i].url # url \/ feeds[i].server # server
                               THEN 1 ELSE 0,
                       changed |-> FALSE]

\* housedvr_feed_refresh (server) at time t.
RefreshFeeds(feeds, server, t) ==
    [i \in 1..Len(feeds) |->
        IF feeds[i].server = server
        THEN [feeds[i] EXCEPT !.timestamp = t] ELSE feeds[i]]

RefreshServers(servers, server, t) ==
    LET match == {i \in 1..Len(servers) : servers[i].name = server}
    IN  IF match = {} THEN servers
        ELSE [servers EXCEPT ![SetMax(match)].timestamp = t]

\* A camera entry once pruned: the name stays.
\* A prune that frees the entry, name included.
Erased(feed) ==
    [name |-> NoName, server |-> NoName, url |-> NoName, timestamp |-> 0]

Forgotten(feed) ==
    [name |-> feed.name, server |-> NoName, url |-> NoName, timestamp |-> 0]

FeedEvent(feed, what) == [category |-> "FEED", name |-> feed.name,
                          action |-> what]
ServerEvent(name, what) == [category |-> "CCTV", name |-> name,
                            action |-> what]

NoEvent == [category |-> "none"]

\* The events of a pass over a table, last entry first: made[i] is the
\* event of entry i, or NoEvent.
RECURSIVE EventsOf(_, _)
EventsOf(made, i) ==
    IF i = 0 THEN <<>>
    ELSE (IF made[i] = NoEvent THEN <<>> ELSE <<made[i]>>)
            \o EventsOf(made, i - 1)

\* A zombie test that does not look at the server of the camera.
ZombieAnyServer(feeds, i, server, t) ==
    feeds[i].timestamp < t - HouseFeedCheckPeriod + 1

\* housedvr_feed_zombies (server) at time t.
ZombieAt(feeds, i, server, t) ==
    /\ feeds[i].server = server
    /\ feeds[i].timestamp < t - HouseFeedCheckPeriod + 1

housedvr_feed_zombies(feeds, server, t) ==
    LET made == [i \in 1..Len(feeds) |->
                    IF ZombieAt(feeds, i, server, t)
                    THEN FeedEvent(feeds[i], "PRUNED") ELSE NoEvent]
    IN  [feeds |-> [i \in 1..Len(feeds) |->
                       IF ZombieAt(feeds, i, server, t)
                       THEN Forgotten(feeds[i]) ELSE feeds[i]],
         events |-> EventsOf(made, Len(feeds))]

\* A deadline test that keeps an entry one pass too long.
EntryLiveLate(entry, t) == entry.timestamp > t - PruneDelay - CleanupPeriod

\* housedvr_feed_prune (now): an entry is live when its timestamp is after
\* the deadline.
EntryLive(entry, t) == entry.timestamp > t - PruneDelay

\* Lines 302-312: the timestamp is zeroed; the server and the URL are
\* cleared when the camera still has a server.
PrunedFeed(feed) ==
    IF feed.server # NoName THEN Forgotten(feed)
    ELSE [feed EXCEPT !.timestamp = 0]

\* Lines 319-325.
PrunedServer(server) ==
    IF server.name # NoName
    THEN [server EXCEPT !.timestamp = 0, !.name = NoName,
                        !.adminurl = NoName]
    ELSE server

\* Lines 335-352: the value of a watchdog after a pass at time t.
\* A watchdog that a live entry does not reset.
WatchDogNoReset(dog, live, count, t) ==
    IF live = 0 /\ count > 0 /\ dog = 0 THEN t ELSE dog

WatchDog(dog, live, count, t) ==
    IF live > 0 THEN 0
    ELSE IF count > 0 /\ dog = 0 THEN t
    ELSE dog

\* A watchdog that counts from the epoch.
WatchDogTrippedEarly(dog, live, count, t) ==
    live = 0 /\ count > 0 /\ dog # 0 /\ WatchDogDelay < t

WatchDogTripped(dog, live, count, t) ==
    live = 0 /\ count > 0 /\ dog # 0 /\ dog + WatchDogDelay < t

housedvr_feed_prune(feeds, servers, feeddog, serverdog, t) ==
    LET feedlive == {i \in 1..Len(feeds) : EntryLive(feeds[i], t)}
        serverlive == {i \in 1..Len(servers) : EntryLive(servers[i], t)}
        feedmade == [i \in 1..Len(feeds) |->
                        IF i \notin feedlive /\ feeds[i].server # NoName
                        THEN FeedEvent(feeds[i], "PRUNED") ELSE NoEvent]
        servermade == [i \in 1..Len(servers) |->
                        IF i \notin serverlive /\ servers[i].name # NoName
                        THEN ServerEvent(servers[i].name, "PRUNED")
                        ELSE NoEvent]
    IN  [feeds |-> [i \in 1..Len(feeds) |->
                       IF i \in feedlive THEN feeds[i]
                       ELSE PrunedFeed(feeds[i])],
         servers |-> [i \in 1..Len(servers) |->
                       IF i \in serverlive THEN servers[i]
                       ELSE PrunedServer(servers[i])],
         events |-> EventsOf(feedmade, Len(feeds))
                       \o EventsOf(servermade, Len(servers)),
         feeddog |-> WatchDog(feeddog, Cardinality(feedlive),
                              Len(feeds), t),
         serverdog |-> WatchDog(serverdog, Cardinality(serverlive),
                                Len(servers), t),
         crash |-> \/ WatchDogTripped(feeddog, Cardinality(feedlive),
                                      Len(feeds), t)
                   \/ WatchDogTripped(serverdog, Cardinality(serverlive),
                                      Len(servers), t)]

(***************************************************************************)
(* Requests to the peers. A request is issued when the handler calls       *)
(* echttp_client for it; echttp_client may refuse it, and then no response *)
(* ever comes. The response of a request comes in the second of the        *)
(* request or within MaxDelay seconds, or never: submitted holds, for each *)
(* peer and kind of request, the seconds left to the request in flight (0: *)
(* none in flight; a new request takes the place of an unanswered one).    *)
(***************************************************************************)
MaxDelay == 1

Kinds == {"check", "status"}

RequestOf(peer, kind) == [peer |-> peer, kind |-> kind]

NoneSubmitted == [r \in Feeds \X Kinds |-> 0]

\* echttp_client + echttp_submit for one request.
Submit(sub, peer, kind) ==
    [sub EXCEPT ![<<peer, kind>>] = MaxDelay + 1]

\* The response of a request was delivered.
Answered(sub, peer, kind) ==
    [sub EXCEPT ![<<peer, kind>>] = 0]

\* Some seconds pass.
Aged(sub, seconds) ==
    [r \in DOMAIN sub |-> IF sub[r] > seconds THEN sub[r] - seconds ELSE 0]

RECURSIVE SeqOfSet(_)
SeqOfSet(S) ==
    IF S = {} THEN <<>>
    ELSE LET x == CHOOSE y \in S : TRUE
         IN  <<x>> \o SeqOfSet(S \ {x})

RECURSIVE SubmitAll(_, _, _)
SubmitAll(sub, peers, kind) ==
    IF peers = {} THEN sub
    ELSE LET x == CHOOSE y \in peers : TRUE
         IN  SubmitAll(Submit(sub, x, kind), peers \ {x}, kind)

\* What a handler did, for the properties: the response it was given
\* (status, body), the requests it issued, the events it logged, whether it
\* asked for a snapshot of the state, ran a discovery round or a cleanup
\* pass, and the recordings it notified.
NoBody == [json |-> FALSE]

Did(op, peer, sent, events) ==
    [op |-> op, peer |-> peer, status |-> 0, body |-> NoBody,
     sent |-> sent, events |-> events,
     snapshot |-> FALSE, round |-> FALSE, cleanup |-> FALSE,
     forwarded |-> <<>>]

Nothing == Did("none", "", <<>>, <<>>)

\* The times of the first call of the background function, of the last
\* discovery round, of the last round of full scans, of the last rush, of
\* the last cleanup pass and of the last time a server was heard of;
\* whether the last discovery round enumerated no service.
NoPast == [first |-> 0, round |-> 0, full |-> 0, rush |-> 0, cleanup |-> 0,
           contact |-> 0, store |-> 0, empty |-> FALSE]

\* housedvr_feed_poll: a check before the full scan is due, else a scan.
PollAlwaysCheck(t, nextfullscan) == "check"

housedvr_feed_poll(t, nextfullscan) ==
    IF t < nextfullscan THEN "check" ELSE "status"

\* A round at every call.
RoundDueAlways(t) == TRUE

\* Lines 808-812: is a discovery round due at time t?
RoundDue(t) == ~(t < HouseFeedNextFullScan /\ t < NextDiscovery)

\* A round that never schedules the next full scan.
NextFullScanNever(t, polled, nextfullscan) ==
    IF polled > 0 THEN nextfullscan ELSE 0

\* Lines 818-825: the next full scan after a round that polled the peers.
NextFullScanAfter(t, polled, nextfullscan) ==
    IF polled > 0
    THEN IF t >= nextfullscan THEN t + FullScanPeriod ELSE nextfullscan
    ELSE 0

\* A snapshot that does not wait for the end of the start period.
SnapshotDueAtOnce(changed, t, start) == changed > 0

\* Lines 793-798: the changed state is saved after the start period.
SnapshotDue(changed, t, start) == changed > 0 /\ t > start

\* housedvr_feed_background (now) at the start of second t: the peers are
\* those that housediscovered() enumerates, accepted those whose request
\* echttp_client takes.
housedvr_feed_background(t, peers, accepted) ==
    LET start == IF StartPeriodEnd = 0 THEN t + StartPeriod
                 ELSE StartPeriodEnd
        cleanup == t >= NextCleanup
        pruned == housedvr_feed_prune(FeedTable, Servers, FeedWatchDog,
                                      ServerWatchDog, t)
        crash == cleanup /\ pruned.crash
        snapshot == SnapshotDue(HouseFeedStateChanged, t, start)
        round == RoundDue(t)
        kind == housedvr_feed_poll(t, HouseFeedNextFullScan)
        polled == Cardinality(peers)
        events == IF cleanup THEN pruned.events ELSE <<>>
    IN  /\ StartPeriodEnd' = start
        /\ NextCleanup' = IF cleanup THEN t + CleanupPeriod ELSE NextCleanup
        /\ FeedTable' = IF cleanup THEN pruned.feeds ELSE FeedTable
        /\ Servers' = IF cleanup THEN pruned.servers ELSE Servers
        /\ FeedWatchDog' = IF cleanup THEN pruned.feeddog ELSE FeedWatchDog
        /\ ServerWatchDog' = IF cleanup THEN pruned.serverdog
                             ELSE ServerWatchDog
        /\ crashed' = crash
        /\ IF crash
           THEN /\ last' = [Did("background", "", <<>>, events)
                               EXCEPT !.cleanup = TRUE]
                /\ past' = [past EXCEPT
                      !.first = IF @ = 0 THEN t ELSE @, !.cleanup = t]
                /\ submitted' = Aged(submitted, t - now)
                /\ UNCHANGED <<HouseFeedStateChanged, NextDiscovery,
                               HouseFeedNextFullScan>>
           ELSE /\ HouseFeedStateChanged' =
                      IF snapshot THEN 0 ELSE HouseFeedStateChanged
                /\ NextDiscovery' =
                      IF ~round THEN NextDiscovery
                      ELSE IF t < start THEN t + StartPollPeriod
                      ELSE t + HouseFeedCheckPeriod
                /\ HouseFeedNextFullScan' =
                      IF ~round THEN HouseFeedNextFullScan
                      ELSE NextFullScanAfter(t, polled,
                                             HouseFeedNextFullScan)
                /\ submitted' =
                      IF round
                      THEN SubmitAll(Aged(submitted, t - now), accepted,
                                     kind)
                      ELSE Aged(submitted, t - now)
                /\ last' = [Did("background", "",
                                IF round
                                THEN [i \in 1..polled |->
                                         RequestOf(SeqOfSet(peers)[i], kind)]
                                ELSE <<>>,
                                events)
                               EXCEPT !.snapshot = snapshot,
                                      !.round = round,
                                      !.cleanup = cleanup]
                /\ past' = [past EXCEPT
                      !.first = IF @ = 0 THEN t ELSE @,
                      !.cleanup = IF cleanup THEN t ELSE @,
                      !.round = IF round THEN t ELSE @,
                      !.full = IF round /\ polled > 0 /\ kind = "status"
                               THEN t ELSE @,
                      !.empty = IF round THEN polled = 0 ELSE @]

\* echttp calls the background function every second. A call that finds
\* nothing due returns at once (lines 785, 793 and 808): NextCall is the
\* second of the next call that does something, or the next second while
\* a response may come.
Deadlines ==
    {NextCleanup,
     IF HouseFeedNextFullScan < NextDiscovery
     THEN HouseFeedNextFullScan ELSE NextDiscovery}
       \cup (IF HouseFeedStateChanged > 0
             THEN {StartPeriodEnd + 1} ELSE {})

NextCall ==
    IF \E r \in DOMAIN submitted : submitted[r] > 0 THEN now + 1
    ELSE IF SetMin(Deadlines) > now + 1 THEN SetMin(Deadlines)
    ELSE now + 1

\* dvr_background at second t: the clock has moved on to t.
dvr_background(t, peers, accepted) ==
    /\ ~crashed
    /\ t > now
    /\ accepted \subseteq peers
    /\ now' = t
    /\ housedvr_feed_background(t, peers, accepted)
    /\ UNCHANGED storevars
    /\ UNCHANGED HouseFeedCheckPeriod
    /\ UNCHANGED <<TransferQueue, TransferConsumer, TransferProducer,
                   lastcheck, files, dirs, request, order, discovered>>

\* housediscover: the list of the services that the portals report has
\* changed.
Discovery(peers, changes) == [peers |-> peers, changes |-> changes]

housediscover(peers) ==
    /\ ~crashed
    /\ peers # discovered.peers
    /\ discovered' = Discovery(peers, discovered.changes + 1)
    /\ last' = Did("discover", "", <<>>, <<>>)
    /\ UNCHANGED storevars
    /\ UNCHANGED HouseFeedCheckPeriod
    /\ UNCHANGED <<now, Servers, FeedTable, HouseFeedNextFullScan,
                   HouseFeedStateChanged, StartPeriodEnd, NextCleanup,
                   NextDiscovery, FeedWatchDog, ServerWatchDog, submitted,
                   past>>
    /\ UNCHANGED <<TransferQueue, TransferConsumer, TransferProducer,
                   lastcheck, files, dirs, request, crashed, order>>

(***************************************************************************)
(* The responses of the peers. A /status body is a record: json (does it   *)
(* parse), host, updated (0 when the field is missing), console, space     *)
(* (cctv.available), feeds (hasFeeds: is cctv.feeds there) and recordings  *)
(* (hasRecordings). Absent stands for a field that is missing.             *)
(***************************************************************************)
Absent == [chars |-> <<"absent">>, pad |-> -1]

\* A recording [time, path, size] or [time, path, size, fourth]: age is
\* now - time, fourth is "true", "false", "none" (three elements) or
\* "other" (a fourth element that is not a boolean).
\* A test that looks at the age of the recording only.
StableByAge(rec) == rec.age > StableAge

Stable(rec) ==
    IF rec.fourth = "none" THEN rec.age > StableAge
    ELSE rec.fourth = "true"

\* Lines 453-466: the cameras of a status, in the order of the response.
RECURSIVE RegisterAll(_, _, _, _, _)
RegisterAll(acc, host, list, i, t) ==
    IF i > Len(list) THEN acc
    ELSE IF ~list[i].string THEN RegisterAll(acc, host, list, i + 1, t)
    ELSE LET name == DeviceName(host, list[i].key)
             r == housedvr_feed_register(acc.feeds, name, host,
                                         list[i].url, t)
         IN  RegisterAll(
                [feeds |-> r.feeds,
                 changed |-> acc.changed \/ r.changed,
                 events |-> IF r.new # 0
                            THEN Append(acc.events,
                                   [category |-> "FEED", name |-> name,
                                    action |-> "ADDED"])
                            ELSE acc.events],
                host, list, i + 1, t)

\* Lines 476-510: the stable recordings are notified, last one first. The
\* run stops at a crash of notify.
RECURSIVE ForwardAll(_, _, _, _)
ForwardAll(acc, peer, list, n) ==
    IF n = 0 \/ acc.crash THEN acc
    ELSE IF ~Stable(list[n]) THEN ForwardAll(acc, peer, list, n - 1)
    ELSE LET r == NotifyResult(acc.queue, TransferConsumer, acc.producer,
                               files, acc.dirs, peer,
                               list[n].path, list[n].size)
         IN  ForwardAll(
                [queue |-> r.queue, producer |-> r.producer,
                 dirs |-> r.dirs, crash |-> r.crash,
                 order |-> IF r.appended
                           THEN Appended(acc.order, acc.producer)
                           ELSE acc.order,
                 forwarded |-> Append(acc.forwarded,
                                  [path |-> list[n].path,
                                   size |-> list[n].size, how |-> r.how])],
                peer, list, n - 1)

\* Where a status response stops: "server" when the host or the console is
\* missing, "feeds" when the server was recorded but the list of feeds is
\* missing or empty, "recordings" when there is no list of recordings.
ScannedUntil(body) ==
    IF ~body.json \/ body.host = Absent \/ body.console = Absent
    THEN "server"
    ELSE IF ~body.hasFeeds \/ body.feeds = <<>> THEN "feeds"
    ELSE IF ~body.hasRecordings THEN "recordings"
    ELSE "end"

\* housedvr_feed_scanned for a 200 response of peer, at time now. The
\* value of r (line 505) is the value of a function that returns none: any
\* value, so the full scan is rushed (rush) or not.
housedvr_feed_scanned(peer, status, body, garbage, rush) ==
    /\ ~crashed
    /\ submitted[<<peer, "status">>] > 0
    /\ LET until == IF status # 200 THEN "server" ELSE ScannedUntil(body)
           srv == housedvr_feed_server(Servers, body.host, body.updated,
                                       body.console, body.space, now,
                                       garbage)
           added == IF srv.new # 0
                    THEN <<ServerEvent(body.host, "ADDED")>> ELSE <<>>
           reg == RegisterAll([feeds |-> FeedTable, changed |-> FALSE,
                               events |-> <<>>],
                              body.host, body.feeds, 1, now)
           zom == housedvr_feed_zombies(reg.feeds, body.host, now)
           start == [queue |-> TransferQueue, producer |-> TransferProducer,
                     dirs |-> dirs, crash |-> FALSE, order |-> order,
                     forwarded |-> <<>>]
           fwd == IF until = "end"
                  THEN ForwardAll(start, peer, body.recordings,
                                  Len(body.recordings))
                  ELSE start
           rushed == rush /\ fwd.forwarded # <<>> /\ ~fwd.crash
       IN  /\ (garbage # 0) =>
                 (until # "server" /\ body.updated = 0
                    /\ Len(srv.servers) > Len(Servers))
           /\ rush => fwd.forwarded # <<>>
           /\ submitted' = IF status = 0 THEN submitted
                           ELSE Answered(submitted, peer, "status")
           /\ Servers' = IF until = "server" THEN Servers ELSE srv.servers
           /\ FeedTable' = IF until \in {"server", "feeds"} THEN FeedTable
                           ELSE zom.feeds
           /\ HouseFeedStateChanged' =
                 IF until \notin {"server", "feeds"} /\ reg.changed
                 THEN now ELSE HouseFeedStateChanged
           /\ TransferQueue' = fwd.queue
           /\ TransferProducer' = fwd.producer
           /\ dirs' = fwd.dirs
           /\ order' = fwd.order
           /\ crashed' = fwd.crash
           /\ HouseFeedNextFullScan' =
                 IF rushed THEN now + RushDelay ELSE HouseFeedNextFullScan
           /\ last' = [Did("scanned", peer, <<>>,
                           IF until = "server" THEN <<>>
                           ELSE IF until = "feeds" THEN added
                           ELSE added \o reg.events \o zom.events)
                          EXCEPT !.forwarded = fwd.forwarded,
                                 !.status = status, !.body = body]
           /\ past' = [past EXCEPT
                 !.rush = IF rushed THEN now ELSE @,
                 !.contact = IF until = "server" THEN @ ELSE now]
    /\ UNCHANGED storevars
    /\ UNCHANGED HouseFeedCheckPeriod
    /\ UNCHANGED <<now, StartPeriodEnd, NextCleanup, NextDiscovery,
                   FeedWatchDog, ServerWatchDog, discovered>>
    /\ UNCHANGED <<TransferConsumer, lastcheck, files, request>>

\* housedvr_feed_scan (serverurl): accepted tells whether echttp_client
\* takes the request.
housedvr_feed_scan(sub, peer, accepted) ==
    IF accepted THEN Submit(sub, peer, "status") ELSE sub

\* A check that scans on every failure.
CheckedScansAnyError(status, body) ==
    IF status # 200 THEN status # 0
    ELSE /\ body.json
         /\ body.host # Absent
         /\ body.hasUpdated
         /\ ~housedvr_feed_uptodate(Servers, body.host, body.updated)

\* A check that never takes the stamp as up to date.
CheckedScansAlways(status, body) ==
    IF status # 200 THEN status = 401
    ELSE /\ body.json
         /\ body.host # Absent
         /\ body.hasUpdated

\* housedvr_feed_checked for a response of peer: status 0 stands for a
\* redirect that echttp follows. A /check body is a record: json, host,
\* updated (hasUpdated: is the field there).
CheckedScans(status, body) ==
    IF status # 200 THEN status = 401
    ELSE /\ body.json
         /\ body.host # Absent
         /\ body.hasUpdated
         /\ ~housedvr_feed_uptodate(Servers, body.host, body.updated)

CheckedRefreshes(status, body) ==
    /\ status = 200
    /\ body.json
    /\ body.host # Absent
    /\ body.hasUpdated
    /\ housedvr_feed_uptodate(Servers, body.host, body.updated)

housedvr_feed_checked(peer, status, body, accepted) ==
    /\ ~crashed
    /\ submitted[<<peer, "check">>] > 0
    /\ LET scans == CheckedScans(status, body)
           refreshes == CheckedRefreshes(status, body) /\ ~scans
           answered == IF status = 0 THEN submitted
                       ELSE Answered(submitted, peer, "check")
       IN  /\ accepted => scans
           /\ submitted' = IF scans
                           THEN housedvr_feed_scan(answered, peer, accepted)
                           ELSE answered
           /\ FeedTable' = IF refreshes
                           THEN RefreshFeeds(FeedTable, body.host, now)
                           ELSE FeedTable
           /\ Servers' = IF refreshes
                         THEN RefreshServers(Servers, body.host, now)
                         ELSE Servers
           /\ last' = [Did("checked", peer,
                           IF scans THEN <<RequestOf(peer, "status")>>
                           ELSE <<>>, <<>>)
                          EXCEPT !.status = status, !.body = body]
           /\ past' = [past EXCEPT
                 !.contact = IF refreshes THEN now ELSE @]
    /\ UNCHANGED storevars
    /\ UNCHANGED HouseFeedCheckPeriod
    /\ UNCHANGED <<now, HouseFeedNextFullScan, HouseFeedStateChanged,
                   StartPeriodEnd, NextCleanup, NextDiscovery,
                   FeedWatchDog, ServerWatchDog, discovered>>
    /\ UNCHANGED <<TransferQueue, TransferConsumer, TransferProducer,
                   lastcheck, files, dirs, request, crashed, order>>

\* housedvr_feed_restore: the names of the saved state are registered with
\* no server.
RECURSIVE RestoreAll(_, _, _)
RestoreAll(feeds, names, i) ==
    IF i > Len(names) THEN feeds
    ELSE RestoreAll(
            housedvr_feed_register(feeds, names[i], NoServer, NoServer,
                                   now).feeds,
            names, i + 1)

housedvr_feed_restore(names) ==
    /\ ~crashed
    /\ FeedTable' = RestoreAll(FeedTable, names, 1)
    /\ last' = Did("restore", "", <<>>, <<>>)
    /\ UNCHANGED storevars
    /\ UNCHANGED HouseFeedCheckPeriod
    /\ UNCHANGED <<now, Servers, HouseFeedNextFullScan,
                   HouseFeedStateChanged, StartPeriodEnd, NextCleanup,
                   NextDiscovery, FeedWatchDog, ServerWatchDog, submitted,
                   discovered, past>>
    /\ UNCHANGED <<TransferQueue, TransferConsumer, TransferProducer,
                   lastcheck, files, dirs, request, crashed, order>>

\* housedvr_feed_save (buffer, size): the names of the table, in the order
\* of the table, as ,"cameras":["n1","n2"]; nothing when the text does not
\* fit in size - 1 characters.
RECURSIVE SavedLength(_, _)
SavedLength(feeds, i) ==
    IF i = 0 THEN 0
    ELSE SavedLength(feeds, i - 1) + PathLen(feeds[i].name) + 2
            + (IF i > 1 THEN 1 ELSE 0)

housedvr_feed_save(feeds, size) ==
    IF 12 + SavedLength(feeds, Len(feeds)) + 1 >= size THEN <<>>
    ELSE [i \in 1..Len(feeds) |-> feeds[i].name]

\* dvr_feed_declare, the legacy registration: a parameter that is missing
\* is Absent (admin defaults to url); devices is the list of the names
\* between the '+' signs. With name, url and space but no devices
\* parameter the loop reads devices[0] through a null pointer: the read
\* faults and the process dies, or it gives a 0 and the list is empty.
DeclaredUrl(url, device) ==
    Name(<<"h", "/">> \o url.chars \o <<"/">> \o device.chars \o <<"/", "s">>)

RECURSIVE DeclareAll(_, _, _, _, _)
DeclareAll(acc, name, url, devices, i) ==
    IF i > Len(devices) THEN acc
    ELSE LET feed == DeviceName(name, devices[i])
             r == housedvr_feed_register(acc.feeds, feed, name,
                                         DeclaredUrl(url, devices[i]), now)
         IN  DeclareAll(
                [feeds |-> r.feeds,
                 changed |-> acc.changed \/ r.changed,
                 events |-> IF r.new # 0
                            THEN Append(acc.events,
                                   [category |-> "FEED", name |-> feed,
                                    action |-> "ADDED"])
                            ELSE acc.events],
                name, url, devices, i + 1)

DeclareRequest(name, url, space, hasDevices) ==
    [json |-> FALSE, name |-> name # Absent, url |-> url # Absent,
     available |-> space # Absent, devices |-> hasDevices]

dvr_feed_declare(name, admin, url, space, hasDevices, devices, garbage) ==
    /\ ~crashed
    /\ \E fault \in BOOLEAN :
       LET taken == name # Absent /\ url # Absent /\ space # Absent
           console == Name(<<"h", "/">>
                           \o (IF admin = Absent THEN url ELSE admin).chars
                           \o <<"/">>)
           srv == housedvr_feed_server(Servers, name, 0, console, space,
                                       now, garbage)
           reg == DeclareAll([feeds |-> FeedTable, changed |-> FALSE,
                              events |-> <<>>], name, url, devices, 1)
           crash == taken /\ ~hasDevices /\ fault
       IN  /\ (garbage # 0) => (taken /\ Len(srv.servers) > Len(Servers))
           /\ ~hasDevices => devices = <<>>
           /\ crashed' = crash
           /\ Servers' = IF taken THEN srv.servers ELSE Servers
           /\ FeedTable' = IF taken /\ ~crash THEN reg.feeds ELSE FeedTable
           /\ HouseFeedStateChanged' =
                 IF taken /\ ~crash /\ reg.changed THEN now
                 ELSE HouseFeedStateChanged
           /\ last' = [Did("declare", "", <<>>,
                           IF ~taken THEN <<>>
                           ELSE (IF srv.new # 0
                                 THEN <<ServerEvent(name, "ADDED")>>
                                 ELSE <<>>)
                                \o (IF crash THEN <<>> ELSE reg.events))
                          EXCEPT !.body = DeclareRequest(name, url, space,
                                                         hasDevices)]
           /\ past' = [past EXCEPT !.contact = IF taken THEN now ELSE @]
    /\ UNCHANGED storevars
    /\ UNCHANGED HouseFeedCheckPeriod
    /\ UNCHANGED <<now, HouseFeedNextFullScan, StartPeriodEnd, NextCleanup,
                   NextDiscovery, FeedWatchDog, ServerWatchDog, submitted,
                   discovered>>
    /\ UNCHANGED <<TransferQueue, TransferConsumer, TransferProducer,
                   lastcheck, files, dirs, request, order>>

\* The registry when the process starts.
RegistryInit ==
    /\ now = Epoch
    /\ Servers = <<>>
    /\ FeedTable = <<>>
    /\ HouseFeedNextFullScan = 0
    /\ HouseFeedStateChanged = 0
    /\ StartPeriodEnd = 0
    /\ NextCleanup = 0
    /\ NextDiscovery = 0
    /\ FeedWatchDog = 0
    /\ ServerWatchDog = 0
    /\ submitted = NoneSubmitted
    /\ last = Nothing
    /\ past = NoPast

\* housedvr_store.c at start: no automatic cleanup (HouseDvrMaxSpace is 0
\* without -dvr-clean), lastcheck and lastday are 0, and the links are
\* those of an earlier run or none. The file system has Blocks blocks of
\* one byte (f_frsize = f_bsize = 1); other is what it holds besides the
\* files of the archive, the reserved blocks included.
NoLinks == [name \in {"Today", "Yesterday"} |-> <<>>]

Disk(blocks, other) ==
    [f_blocks |-> blocks, f_frsize |-> 1, f_bsize |-> 1, other |-> other]

StoreInit ==
    /\ HouseDvrMaxSpace = 0
    /\ StoreLastCheck = 0
    /\ StoreLastDay = 0
    /\ links = NoLinks
    /\ disk = Disk(10, 0)

\* housedvr_feed_initialize without the option -dvr-check.
OptionInit == HouseFeedCheckPeriod = DefaultCheckPeriod

FeedInit ==
    /\ RegistryInit /\ OptionInit
    /\ discovered = Discovery(Feeds, 0) /\ StoreInit

(***************************************************************************)
(* What the peers send.                                                    *)
(***************************************************************************)
HostP1 == Name(<<"p", "1">>)
HostP2 == Name(<<"p", "2">>)
ConsoleUrl == Name(<<"u", "i">>)
KeyA == Name(<<"a">>)
KeyB == Name(<<"b">>)
StreamA == Name(<<"s", "a">>)
StreamB == Name(<<"s", "b">>)
CameraA == DeviceName(HostP1, KeyA)
Ghost == Name(<<"o", "l", "d", ":", "x">>)

Space(number, unit) == [number |-> number, unit |-> unit]
FeedOf(key, url) == [key |-> key, url |-> url, string |-> TRUE]
Recording(age, path, size, fourth) ==
    [age |-> age, path |-> path, size |-> size, fourth |-> fourth]

StatusBody(host, updated, console, space, hasFeeds, feeds, hasRec, recs) ==
    [json |-> TRUE, host |-> host, updated |-> updated,
     console |-> console, space |-> space, hasFeeds |-> hasFeeds,
     feeds |-> feeds, hasRecordings |-> hasRec, recordings |-> recs]

\* {host p1, updated 42, available "12G", feeds {a}, recordings []}.
ColdStartBody ==
    StatusBody(HostP1, 42, ConsoleUrl, Space(12, "G"), TRUE,
               <<FeedOf(KeyA, StreamA)>>, TRUE, <<>>)

\* A recording that is stable by its age, one that is too young.
StableBody ==
    StatusBody(HostP1, 43, ConsoleUrl, Space(500, "M"), TRUE,
               <<FeedOf(KeyA, StreamA)>>, TRUE,
               <<Recording(30, PathA, 2, "none"),
                 Recording(120, PathA, 1, "none")>>)

\* An early CCTV service: no updated field, no recordings; another camera.
LegacyBody ==
    StatusBody(HostP2, 0, ConsoleUrl, Space(7, "K"), TRUE,
               <<FeedOf(KeyB, StreamB)>>, FALSE, <<>>)

NoFeedsBody ==
    StatusBody(HostP1, 43, ConsoleUrl, Space(12, "G"), FALSE, <<>>,
               FALSE, <<>>)

NoHostBody ==
    StatusBody(Absent, 42, ConsoleUrl, Space(12, "G"), TRUE,
               <<FeedOf(KeyA, StreamA)>>, TRUE, <<>>)

BadJson == [ColdStartBody EXCEPT !.json = FALSE]

StatusBodies == {ColdStartBody, StableBody, LegacyBody, NoFeedsBody,
                 NoHostBody, BadJson}

CheckBody(host, hasUpdated, updated) ==
    [json |-> TRUE, host |-> host, hasUpdated |-> hasUpdated,
     updated |-> updated]

CheckBodies == {CheckBody(HostP1, TRUE, 42), CheckBody(HostP1, TRUE, 43),
                CheckBody(HostP2, TRUE, 42), CheckBody(HostP1, FALSE, 0),
                CheckBody(Absent, TRUE, 42)}

\* Status 0 is a redirect that echttp follows.
FeedStatuses == {200, 401, 404, 0}

\* A value left in memory, for a field that is never written.
Garbage == {0, 42}

(***************************************************************************)
(* The specification.                                                      *)
(***************************************************************************)
\* The archive at start: the file of PathA is absent, or a file of zeros.
Archive(local) ==
    /\ files = [f \in FileNames |-> IF f = PathA THEN local ELSE NoFile]
    /\ dirs = IF local = NoFile THEN {} ELSE ParentDirs(PathA)

Init ==
    /\ TransferQueue = [i \in Indexes |-> EmptySlot]
    /\ TransferConsumer = 0
    /\ TransferProducer = 0
    /\ lastcheck = "past"
    /\ \E local \in {NoFile, Zeros(1)} : Archive(local)
    /\ request = NoRequest
    /\ crashed = FALSE
    /\ order = <<>>
    /\ FeedInit

\* The queue under every sequence of notifications, ticks and responses.
\* The responses carry a status and an empty body (Content-Length: 0): the
\* queue never reads the body. SpecBody below has the bodies.
Next ==
    \/ \E feed \in Feeds, n \in Notifications :
          housedvr_transfer_notify(feed, n[1], n[2])
    \/ housedvr_transfer_background
    \/ ClockTick
    \/ \E status \in Statuses : housedvr_transfer_ready(status, TRUE, 0, 0)
    \/ housedvr_transfer_complete
    \/ housedvr_transfer_failed

Spec == Init /\ [][Next]_vars

\* One recording, transferred with every response a peer can give: a body
\* of up to MaxBody bytes, with or without a Content-Length, split in every
\* way between the two callbacks. The local file is absent or holds up to
\* MaxBody + 1 bytes.
InitBody ==
    /\ TransferQueue = [i \in Indexes |-> EmptySlot]
    /\ TransferConsumer = 0
    /\ TransferProducer = 0
    /\ lastcheck = "past"
    /\ \E local \in {NoFile} \cup {Zeros(n) : n \in 1..(MaxBody + 1)} :
          Archive(local)
    /\ request = NoRequest
    /\ crashed = FALSE
    /\ order = <<>>
    /\ FeedInit

FirstNotify ==
    /\ TransferProducer = 0
    /\ TransferQueue[0].state = TRANSFER_STATE_EMPTY
    /\ \E feed \in Feeds, size \in 1..MaxBody :
          housedvr_transfer_notify(feed, PathA, size)

NextBody ==
    \/ FirstNotify
    \/ housedvr_transfer_background
    \/ ClockTick
    \/ \E status \in Statuses, hasLength \in BOOLEAN,
          total \in 0..MaxBody, early \in 0..MaxBody :
          housedvr_transfer_ready(status, hasLength, total, early)
    \/ echttp_transfer
    \/ housedvr_transfer_complete
    \/ housedvr_transfer_failed

SpecBody == InitBody /\ [][NextBody]_vars

\* The queue, from an archive that holds no file, when the event loop keeps
\* running: the clock moves on, the
\* tick keeps being called, a response is followed by its completion, and
\* every chain of redirects ends with a response that is not a redirect.
FinalResponse ==
    \E status \in Statuses \ {302} :
        housedvr_transfer_ready(status, TRUE, 0, 0)

InitLive == Init /\ files[PathA] = NoFile

SpecLive ==
    /\ InitLive
    /\ [][Next]_vars
    /\ WF_vars(ClockTick)
    /\ WF_vars(housedvr_transfer_background)
    /\ WF_vars(housedvr_transfer_complete)
    /\ SF_vars(FinalResponse)

(***************************************************************************)
(* The queue regions.                                                      *)
(***************************************************************************)
(* The registry with one peer, over the first seconds of a run: the first  *)
(* discovery rounds and every response to them. The transfer queue only    *)
(* receives the notifications.                                             *)
(***************************************************************************)
\* The seconds of a run that are explored.
FeedHorizon == 22

Declarations ==
    {<<HostP2, Absent, StreamB, Space(7, "K"), TRUE, <<KeyB>>>>,
     <<HostP1, ConsoleUrl, StreamA, Space(12, "G"), TRUE, <<KeyA, KeyB>>>>,
     <<Absent, ConsoleUrl, StreamA, Space(12, "G"), TRUE, <<KeyA>>>>}

Responses(statuses, bodies) ==
    {<<status, body>> \in statuses \X bodies :
        status # 200 => body = BadJson}

CheckResponses(statuses) ==
    {<<status, body>> \in statuses \X CheckBodies :
        status # 200 => body = CheckBody(Absent, TRUE, 42)}

InitFeed == Init /\ files[PathA] = NoFile

NextFeed ==
    \/ \E peers \in SUBSET Feeds, accepted \in SUBSET Feeds :
          /\ now < Epoch + FeedHorizon
          /\ dvr_background(now + 1, peers, accepted)
    \/ \E peer \in Feeds, r \in Responses({200, 404, 0}, StatusBodies),
          garbage \in Garbage, rush \in BOOLEAN :
          housedvr_feed_scanned(peer, r[1], r[2], garbage, rush)
    \/ \E peer \in Feeds, r \in CheckResponses(FeedStatuses),
          accepted \in BOOLEAN :
          housedvr_feed_checked(peer, r[1], r[2], accepted)

SpecFeed == InitFeed /\ [][NextFeed]_vars

(***************************************************************************)
(* The registry over the long run: the clock goes from one call of the     *)
(* background function that does something to the next, up to the          *)
(* watchdog's delay after the last contact. The peer answers or not, the   *)
(* list of the discovered services changes early in the run.               *)
(***************************************************************************)
\* The seconds of a run that are explored.
WatchHorizon == 530

\* How many times the list of the discovered services changes, and the
\* seconds of the run in which it does and in which recordings come.
MaxDiscoveries == 1
ChangeHorizon == 10

\* The peer has replaced its camera.
MovedBody ==
    StatusBody(HostP1, 44, ConsoleUrl, Space(12, "G"), TRUE,
               <<FeedOf(KeyB, StreamB)>>, TRUE, <<>>)

WatchBodies == {ColdStartBody, StableBody}

InitWatch ==
    /\ TransferQueue = [i \in Indexes |-> EmptySlot]
    /\ TransferConsumer = 0
    /\ TransferProducer = 0
    /\ lastcheck = "past"
    /\ Archive(NoFile)
    /\ request = NoRequest
    /\ crashed = FALSE
    /\ order = <<>>
    /\ RegistryInit /\ OptionInit
    /\ StoreInit
    /\ \E peers \in SUBSET Feeds : discovered = Discovery(peers, 0)

NextWatch ==
    \/ \E accepted \in SUBSET discovered.peers :
          /\ NextCall <= Epoch + WatchHorizon
          /\ dvr_background(NextCall, discovered.peers, accepted)
    \/ \E peers \in SUBSET Feeds :
          /\ discovered.changes < MaxDiscoveries
          /\ now < Epoch + ChangeHorizon
          /\ housediscover(peers)
    \/ \E peer \in Feeds, body \in WatchBodies, rush \in BOOLEAN :
          /\ body # ColdStartBody => now < Epoch + ChangeHorizon
          /\ housedvr_feed_scanned(peer, 200, body, 0, rush)
    \/ \E peer \in Feeds, accepted \in BOOLEAN :
          housedvr_feed_checked(peer, 200, CheckBody(HostP1, TRUE, 42),
                                accepted)

SpecWatch == InitWatch /\ [][NextWatch]_vars

(***************************************************************************)
(* The names of the cameras: the saved names are restored and a legacy     *)
(* service declares itself when the process starts, then the peer lists    *)
(* one camera or another, until its entries have been pruned and           *)
(* registered again.                                                       *)
(***************************************************************************)
\* The seconds of a run that are explored.
NamesHorizon == 230

\* The size of the buffer that the depot client gives to the save function.
StateBufferSize == 64

CameraB == DeviceName(HostP1, KeyB)
LegacyB == DeviceName(HostP2, KeyB)
CameraNames == {CameraA, CameraB, LegacyB, Ghost}

NamesBodies == {ColdStartBody, MovedBody}

NamesTick(horizon) ==
    /\ NextCall <= Epoch + horizon
    /\ dvr_background(NextCall, discovered.peers, discovered.peers)

NamesNext(horizon) ==
    \/ NamesTick(horizon)
    \/ \E peer \in Feeds, body \in NamesBodies :
          /\ now < Epoch + horizon
          /\ housedvr_feed_scanned(peer, 200, body, 0, FALSE)
    \/ \E peer \in Feeds, updated \in {42, 44}, accepted \in BOOLEAN :
          /\ now < Epoch + horizon
          /\ housedvr_feed_checked(peer, 200,
                                   CheckBody(HostP1, TRUE, updated),
                                   accepted)
    \/ /\ now = Epoch
       /\ housedvr_feed_restore(<<CameraA, Ghost>>)
    \/ \E d \in Declarations :
          /\ now = Epoch
          /\ d[1] = HostP2
          /\ dvr_feed_declare(d[1], d[2], d[3], d[4], d[5], d[6], 0)

NextNames == NamesNext(NamesHorizon)

SpecNames == InitFeed /\ [][NextNames]_vars

(***************************************************************************)
(* The same over the start period and the seconds that follow it, with the *)
(* schedule: echttp calls the background function again and again.         *)
(***************************************************************************)
SaveHorizon == 66

NextSave == NamesNext(SaveHorizon)

SpecSave ==
    InitFeed /\ [][NextSave]_vars /\ WF_vars(NamesTick(SaveHorizon))

(***************************************************************************)
(* The legacy declarations: every request with or without each of its      *)
(* parameters, over the first seconds of a run.                            *)
(***************************************************************************)
DeclareHorizon == 3

DeclareRequests ==
    {r \in {HostP1, Absent} \X {ConsoleUrl, Absent}
           \X {StreamA, Absent} \X {Space(12, "G"), Absent}
           \X BOOLEAN \X {<<>>, <<KeyA>>, <<KeyA, KeyB>>} :
        ~r[5] => r[6] = <<>>}

NextDeclare ==
    \/ /\ now < Epoch + DeclareHorizon
       /\ dvr_background(now + 1, {}, {})
    \/ \E r \in DeclareRequests :
          dvr_feed_declare(r[1], r[2], r[3], r[4], r[5], r[6], 0)

SpecDeclare == InitFeed /\ [][NextDeclare]_vars


(***************************************************************************)
RECURSIVE Range(_, _)
\* The indexes from index up to (excluding) until, around the ring.
Range(index, until) ==
    IF index = until THEN {}
    ELSE {index} \cup Range(housedvr_transfer_next(index), until)

Pending == Range(TransferConsumer, TransferProducer)
History == Indexes \ Pending

TypeOK ==
    /\ TransferConsumer \in Indexes
    /\ TransferProducer \in Indexes
    /\ \A i \in Indexes : TransferQueue[i].state \in 0..4

StateOf(i) == TransferQueue[i].state

Finished == {TRANSFER_STATE_DONE, TRANSFER_STATE_FAILED}
Waiting == {TRANSFER_STATE_IDLE, TRANSFER_STATE_ACTIVE}

(***************************************************************************)
(* C1: every slot from consumer up to (excluding) producer is IDLE or      *)
(* ACTIVE, and every other slot (all of them when producer = consumer) is  *)
(* EMPTY, DONE or FAILED.                                                  *)
(***************************************************************************)
C1_QueueRegions ==
    \A i \in Indexes :
        IF i \in Pending
        THEN StateOf(i) \in Waiting
        ELSE StateOf(i) \in Finished \cup {TRANSFER_STATE_EMPTY}

\* The ring has wrapped: a pending slot sits after the DONE and FAILED ones.
C1_Witness ==
    /\ TransferProducer < TransferConsumer
    /\ \E i \in History : StateOf(i) = TRANSFER_STATE_DONE
    /\ \E i \in History : StateOf(i) = TRANSFER_STATE_FAILED
    /\ \E i \in Pending : StateOf(i) = TRANSFER_STATE_ACTIVE

(***************************************************************************)
(* C2: at most one slot is ACTIVE, and an ACTIVE slot is the slot at       *)
(* index consumer.                                                         *)
(***************************************************************************)
C2_OneActive ==
    /\ \A i \in Indexes :
          StateOf(i) = TRANSFER_STATE_ACTIVE => i = TransferConsumer
    /\ Cardinality({i \in Indexes : StateOf(i) = TRANSFER_STATE_ACTIVE}) <= 1

\* A transfer is going on while another one waits behind it.
C2_Witness ==
    /\ TransferConsumer # 0
    /\ StateOf(TransferConsumer) = TRANSFER_STATE_ACTIVE
    /\ request.phase = "body"
    /\ \E i \in Indexes : StateOf(i) = TRANSFER_STATE_IDLE

(***************************************************************************)
(* C3: transfers start and finish in the order of their notifications: a   *)
(* slot appended after another one is ACTIVE, DONE or FAILED only once the *)
(* other one is DONE or FAILED.                                            *)
(***************************************************************************)
C3_Fifo ==
    \A a, b \in 1..Len(order) :
        (a < b /\ StateOf(order[b]) \in Finished \cup {TRANSFER_STATE_ACTIVE})
            => StateOf(order[a]) \in Finished

\* Three slots appended in a row: the first two are over, the third runs.
C3_Witness ==
    /\ Len(order) = TransferQueueSize
    /\ StateOf(order[1]) = TRANSFER_STATE_FAILED
    /\ StateOf(order[2]) = TRANSFER_STATE_DONE
    /\ StateOf(order[Len(order)]) = TRANSFER_STATE_ACTIVE

\* What notify(feed, path, size) does in the current state.
Notified(feed, path, size) ==
    NotifyResult(TransferQueue, TransferConsumer, TransferProducer,
                 files, dirs, feed, path, size)

\* What the same call does when it is made again right after.
NotifiedAgain(feed, path, size) ==
    LET r == Notified(feed, path, size)
    IN  NotifyResult(r.queue, TransferConsumer, r.producer,
                     files, r.dirs, feed, path, size)

(***************************************************************************)
(* C4: notify(feed, path, size) called twice in a row, from any reachable  *)
(* state and with nothing in between, appends at most one slot: the second *)
(* call does not advance the producer.                                     *)
(***************************************************************************)
C4_NotifyTwice ==
    \A feed \in Feeds, n \in Notifications :
        (~crashed /\ ~Notified(feed, n[1], n[2]).crash)
            => NotifiedAgain(feed, n[1], n[2]).producer
                  = Notified(feed, n[1], n[2]).producer

(***************************************************************************)
(* C5: at most one IDLE slot holds any given path.                         *)
(***************************************************************************)
C5_OneIdlePerPath ==
    \A i, j \in Indexes :
        (/\ i # j
         /\ StateOf(i) = TRANSFER_STATE_IDLE
         /\ StateOf(j) = TRANSFER_STATE_IDLE)
            => TransferQueue[i].path # TransferQueue[j].path

(***************************************************************************)
(* C6: when the queue is full and the notified path matches no IDLE        *)
(* pending slot, notify changes neither the producer nor any slot (it      *)
(* never touches the consumer); so at most TransferQueueSize - 1 slots are *)
(* IDLE or ACTIVE.                                                         *)
(***************************************************************************)
IdleMatch(path) ==
    \E i \in Pending :
        /\ StateOf(i) = TRANSFER_STATE_IDLE
        /\ TransferQueue[i].path = path

IsFull == housedvr_transfer_next(TransferProducer) = TransferConsumer

C6_FullDrops ==
    /\ \A feed \in Feeds, n \in Notifications :
          (~crashed /\ IsFull /\ ~IdleMatch(n[1]))
              => /\ Notified(feed, n[1], n[2]).queue = TransferQueue
                 /\ Notified(feed, n[1], n[2]).producer = TransferProducer
    /\ Cardinality({i \in Indexes : StateOf(i) \in Waiting})
          <= TransferQueueSize - 1

\* The queue is full and a notification gets as far as the full test.
C6_Witness ==
    /\ ~crashed
    /\ IsFull
    /\ \E feed \in Feeds, n \in Notifications :
          /\ ~IdleMatch(n[1])
          /\ Notified(feed, n[1], n[2]).how = "full"

(***************************************************************************)
(* C7: no slot, in any state, holds a path that contains "..", and no      *)
(* local file is ever opened for such a path.                              *)
(***************************************************************************)
ContainsDotDot(chars) ==
    \E i \in 1..(Len(chars) - 1) : chars[i] = "." /\ chars[i + 1] = "."

C7_NoDotDot ==
    /\ \A i \in Indexes : ~ContainsDotDot(TransferQueue[i].path.chars)
    /\ \A f \in FileNames : ContainsDotDot(f.chars) => files[f] = NoFile
    /\ request.phase = "stream" => ~ContainsDotDot(request.path.chars)

\* A path with ".." is notified while the queue has room and holds both
\* history and pending slots: the security check is what turns it down.
C7_Witness ==
    /\ ~crashed
    /\ ~IsFull
    /\ Pending # {}
    /\ \E i \in History : StateOf(i) = TRANSFER_STATE_DONE
    /\ \E feed \in Feeds :
          Notified(feed, PathDots, 1).how = "dotdot"

(***************************************************************************)
(* C8: every slot that finishes in a step is the slot at consumer at that  *)
(* point: the consumer moves one slot ahead for each of them. The slot is  *)
(* DONE when it is the ACTIVE slot whose exchange completes with a 2xx     *)
(* status and FAILED otherwise (a request that cannot be submitted         *)
(* included); the next pending slot, if any, is then ACTIVE with its       *)
(* request submitted.                                                      *)
(***************************************************************************)
C8_Step ==
    LET fin == {i \in Indexes : /\ StateOf(i) \in Waiting
                                /\ TransferQueue'[i].state \in Finished}
    IN  (fin # {} /\ ~crashed')
        => /\ fin = Range(TransferConsumer, TransferConsumer')
           /\ \A i \in fin :
                 (TransferQueue'[i].state = TRANSFER_STATE_DONE)
                 <=> (/\ i = TransferConsumer
                      /\ StateOf(i) = TRANSFER_STATE_ACTIVE
                      /\ request.phase = "body"
                      /\ request.status \div 100 = 2)
           /\ (TransferConsumer' # TransferProducer')
                 => /\ TransferQueue'[TransferConsumer'].state
                          = TRANSFER_STATE_ACTIVE
                    /\ request' = Submitted(TransferConsumer',
                          TransferQueue'[TransferConsumer'].offset)

C8_Finish == [][C8_Step]_vars

\* A transfer has just ended DONE and the one behind it was started in the
\* same handler, after an earlier one had FAILED.
C8_Witness ==
    /\ TransferConsumer = 2
    /\ StateOf(0) = TRANSFER_STATE_FAILED
    /\ StateOf(1) = TRANSFER_STATE_DONE
    /\ StateOf(2) = TRANSFER_STATE_ACTIVE
    /\ request = Submitted(2, 0)
    /\ lastcheck = "now"

(***************************************************************************)
(* C9 as claimed (second half): whenever no slot is ACTIVE and the queue   *)
(* is not empty, the next tick makes the slot at consumer ACTIVE.          *)
(***************************************************************************)
NoneActive == \A i \in Indexes : StateOf(i) # TRANSFER_STATE_ACTIVE

C9_NextTick ==
    (~crashed /\ NoneActive /\ TransferConsumer # TransferProducer)
        => \A errs \in 0..MaxClientError :
              BackgroundResult(errs).queue[TransferConsumer].state
                  = TRANSFER_STATE_ACTIVE

(***************************************************************************)
(* C9 as amended: when no slot is ACTIVE and the queue is not empty, the   *)
(* next tick made in a second in which no tick was made yet starts the     *)
(* slot at consumer: the slot is ACTIVE with its request submitted, or,    *)
(* when the request cannot be submitted, FAILED with the consumer moved    *)
(* on. While the process runs, every IDLE slot and every ACTIVE slot       *)
(* eventually is DONE or FAILED.                                           *)
(***************************************************************************)
C9_TickStarts ==
    (/\ ~crashed
     /\ lastcheck = "past"
     /\ NoneActive
     /\ TransferConsumer # TransferProducer)
        => \A errs \in 0..MaxClientError :
              LET r == BackgroundResult(errs)
              IN  IF errs = 0
                  THEN /\ r.queue[TransferConsumer].state
                             = TRANSFER_STATE_ACTIVE
                       /\ r.consumer = TransferConsumer
                       /\ r.request = Submitted(TransferConsumer,
                             TransferQueue[TransferConsumer].offset)
                  ELSE /\ r.queue[TransferConsumer].state
                             = TRANSFER_STATE_FAILED
                       /\ r.consumer # TransferConsumer

C9_Progress ==
    /\ []C9_TickStarts
    /\ \A i \in Indexes :
          (StateOf(i) \in Waiting) ~> (StateOf(i) \in Finished \/ crashed)

\* The tick of this second has started the head of the queue, and another
\* slot waits behind it.
C9_Witness ==
    /\ lastcheck = "now"
    /\ StateOf(TransferConsumer) = TRANSFER_STATE_ACTIVE
    /\ request.phase = "sent"
    /\ \E i \in Pending : StateOf(i) = TRANSFER_STATE_IDLE
    /\ \A i \in History : StateOf(i) = TRANSFER_STATE_EMPTY

(***************************************************************************)
(* C10: after a transfer that ends with status 206, started with offset k  *)
(* and remote size s (the peer sent the s - k bytes it announced), the     *)
(* local file has length s; and no step of such a transfer changes the     *)
(* first k bytes of the file.                                              *)
(***************************************************************************)
C10_Step ==
    LET item == TransferQueue[TransferConsumer]
        before == files[item.path]
        after == files'[item.path]
    IN  /\ (/\ item.state = TRANSFER_STATE_ACTIVE
            /\ TransferQueue'[TransferConsumer].state = TRANSFER_STATE_DONE
            /\ request.phase = "body"
            /\ request.status = 206
            /\ request.length = item.size - item.offset)
               => /\ after # NoFile
                  /\ Len(after) = item.size
        /\ (/\ item.state = TRANSFER_STATE_ACTIVE
            /\ request.phase \in {"body", "stream"}
            /\ request.status = 206
            /\ before # NoFile)
               => /\ after # NoFile
                  /\ \A j \in 1..item.offset :
                        j <= Len(before) => after[j] = before[j]

C10_Resume == [][C10_Step]_vars

(***************************************************************************)
(* C11: when a /check response (status 200) carries host H and updated U   *)
(* and the registry holds a server named H whose stored updated is U, the  *)
(* handler issues no /status request; only the timestamps of that server   *)
(* and of its cameras are set to the current time, nothing else changes.   *)
(***************************************************************************)
CheckAnswer ==
    /\ last'.op = "checked"
    /\ last'.status = 200
    /\ last'.body.json
    /\ last'.body.host # Absent
    /\ last'.body.hasUpdated

Holds(host, updated) ==
    \E i \in 1..Len(Servers) :
        /\ Servers[i].name = host
        /\ Servers[i].name # NoName
        /\ Servers[i].updated = updated

C11_Step ==
    (CheckAnswer /\ Holds(last'.body.host, last'.body.updated))
        => /\ last'.sent = <<>>
           /\ submitted'[<<last'.peer, "status">>]
                 = submitted[<<last'.peer, "status">>]
           /\ Len(Servers') = Len(Servers)
           /\ \A i \in 1..Len(Servers) :
                 Servers'[i] =
                    IF Servers[i].name = last'.body.host
                    THEN [Servers[i] EXCEPT !.timestamp = now]
                    ELSE Servers[i]
           /\ Len(FeedTable') = Len(FeedTable)
           /\ \A i \in 1..Len(FeedTable) :
                 FeedTable'[i] =
                    IF FeedTable[i].server = last'.body.host
                    THEN [FeedTable[i] EXCEPT !.timestamp = now]
                    ELSE FeedTable[i]
           /\ UNCHANGED <<TransferQueue, TransferProducer,
                          HouseFeedNextFullScan, HouseFeedStateChanged>>

C11_UpToDate == [][C11_Step]_vars

\* A check has just found the stamp of a known server unchanged: the server
\* and its camera, last seen in an earlier second, are seen now, while
\* another server keeps its older timestamp.
C11_Witness ==
    /\ last.op = "checked"
    /\ last.status = 200
    /\ last.sent = <<>>
    /\ \E i, j \in 1..Len(Servers) :
          /\ Servers[i].name = last.body.host
          /\ Servers[i].updated = last.body.updated
          /\ Servers[i].timestamp = now
          /\ Servers[j].name # NoName
          /\ Servers[j].timestamp < now
    /\ \E i \in 1..Len(FeedTable) :
          /\ FeedTable[i].server = last.body.host
          /\ FeedTable[i].timestamp = now

(***************************************************************************)
(* C12: a /check response with status 401 makes the handler issue exactly  *)
(* one /status request, to the same peer; with any other status than 200   *)
(* and 401 (a redirect that is followed included) it issues no /status     *)
(* request and changes no entry of the registry.                           *)
(***************************************************************************)
C12_Step ==
    (last'.op = "checked" /\ last'.status # 200)
        => /\ last'.sent = IF last'.status = 401
                           THEN <<RequestOf(last'.peer, "status")>>
                           ELSE <<>>
           /\ (last'.status # 401)
                 => submitted'[<<last'.peer, "status">>]
                       = submitted[<<last'.peer, "status">>]
           /\ (last'.status = 401)
                 => submitted'[<<last'.peer, "status">>]
                       \in {submitted[<<last'.peer, "status">>],
                            MaxDelay + 1}
           /\ UNCHANGED <<Servers, FeedTable>>

C12_Upgrade == [][C12_Step]_vars

\* A 401 answer to a check has just been upgraded to a status request, which
\* is in flight, with a server already in the registry.
C12_Witness ==
    /\ last.op = "checked"
    /\ last.status = 401
    /\ last.sent = <<RequestOf(last.peer, "status")>>
    /\ submitted[<<last.peer, "status">>] = MaxDelay + 1
    /\ submitted[<<last.peer, "check">>] = 0
    /\ Len(Servers) > 0

(***************************************************************************)
(* C13 as claimed: at a cold start the first discovery round sends a check *)
(* to the peer (the status request only follows the 401 answer); once the  *)
(* status {host p1, updated 42, available "12G", feeds {a}, recordings []} *)
(* is processed the registry holds exactly the server p1 with 12288 MB and *)
(* the camera p1:a, and the transfer queue is empty.                       *)
(***************************************************************************)
FirstRound == past.round = 0 /\ last'.op = "background" /\ last'.round

ColdStartAnswer ==
    /\ last'.op = "scanned"
    /\ last'.status = 200
    /\ last'.body = ColdStartBody
    /\ Servers = <<>>
    /\ FeedTable = <<>>
    /\ TransferConsumer = TransferProducer

ColdStartRegistry ==
    /\ Servers' = <<[name |-> HostP1, updated |-> 42,
                     adminurl |-> ConsoleUrl, available |-> 12288,
                     timestamp |-> now]>>
    /\ FeedTable' = <<[name |-> Name(<<"p", "1", ":", "a">>),
                       server |-> HostP1, url |-> StreamA,
                       timestamp |-> now]>>
    /\ TransferConsumer' = TransferProducer'
    /\ \A i \in Indexes : TransferQueue'[i].state = TRANSFER_STATE_EMPTY

\* The space of the server that a status response has just recorded.
RecordedSpace ==
    \A i \in 1..Len(Servers') :
        (Servers'[i].name = last'.body.host)
            => Servers'[i].available =
                  (CASE last'.body.space.unit = "G"
                          -> last'.body.space.number * 1024
                     [] last'.body.space.unit = "M"
                          -> last'.body.space.number
                     [] OTHER -> 0)

C13_ClaimedStep ==
    /\ FirstRound => \A i \in 1..Len(last'.sent) :
                        last'.sent[i].kind = "check"
    /\ ColdStartAnswer => ColdStartRegistry

C13_ColdStart == [][C13_ClaimedStep]_vars

(***************************************************************************)
(* C13 as amended: at a cold start the first discovery round sends the     *)
(* status request at once, to every peer enumerated, and no check (the     *)
(* next full scan is due from the start); once the status {host p1,        *)
(* updated 42, available "12G", feeds {a}, recordings []} is processed the *)
(* registry holds exactly the server p1 with 12288 MB (a G value times     *)
(* 1024, an M value unchanged, any other unit 0) and the camera p1:a, and  *)
(* the transfer queue is empty.                                            *)
(***************************************************************************)
C13_Step ==
    /\ FirstRound => \A i \in 1..Len(last'.sent) :
                        last'.sent[i].kind = "status"
    /\ ColdStartAnswer => ColdStartRegistry
    /\ (/\ last'.op = "scanned"
        /\ last'.status = 200
        /\ ScannedUntil(last'.body) # "server") => RecordedSpace

C13_ColdStartScan == [][C13_Step]_vars

\* The answer to the status request of the first round was processed: one
\* server, one camera, nothing queued, and no check was answered so far.
C13_Witness ==
    /\ last.op = "scanned"
    /\ last.body = ColdStartBody
    /\ Len(Servers) = 1
    /\ Servers[1].available = 12288
    /\ Len(FeedTable) = 1
    /\ TransferConsumer = TransferProducer
    /\ past.round = Epoch + 1
    /\ past.full = Epoch + 1
    /\ now <= Epoch + 1 + MaxDelay

(***************************************************************************)
(* C16: when a status scan forwards a stable recording that notify newly   *)
(* enqueues, the next full scan is set to now + 10; when every recording   *)
(* it forwards is a duplicate (done, in progress or whole locally), the    *)
(* next full scan is left unchanged.                                       *)
(***************************************************************************)
Enqueued == {"append"}
Duplicate == {"done", "active", "idle", "local"}

C16_Step ==
    (last'.op = "scanned" /\ last'.forwarded # <<>> /\ ~crashed')
        => /\ (\E i \in 1..Len(last'.forwarded) :
                  last'.forwarded[i].how \in Enqueued)
                 => HouseFeedNextFullScan' = now + RushDelay
           /\ (\A i \in 1..Len(last'.forwarded) :
                  last'.forwarded[i].how \in Duplicate)
                 => HouseFeedNextFullScan' = HouseFeedNextFullScan

C16_Rush == [][C16_Step]_vars


(***************************************************************************)
(* The schedule of the discovery rounds.                                   *)
(***************************************************************************)
\* The step is a call of the background function that runs a round.
RoundStep == last'.op = "background" /\ last'.round

\* The poll period that follows a round: 10 s in the start period.
PollPeriodAfter(round) ==
    IF round < StartPeriodEnd THEN StartPollPeriod ELSE HouseFeedCheckPeriod

\* A full scan has fallen due at t: 300 s after the last round of full
\* scans, or 10 s after the rush that followed it.
FullScanDue(t) ==
    \/ past.full > past.rush /\ t >= past.full + FullScanPeriod
    \/ past.rush > 0 /\ past.rush >= past.full
          /\ t >= past.rush + RushDelay

Throttled(t) ==
    \/ past.round = 0
    \/ t - past.round >= PollPeriodAfter(past.round)
    \/ FullScanDue(t)

\* C14, as stated: a discovery round runs only when the poll period (10 s
\* in the start period, checkPeriod afterwards) has passed since the
\* previous round or when a full scan has fallen due, also while no peer is
\* enumerated.
C14_Throttle == [][RoundStep => Throttled(now')]_vars

\* C14, amended: a discovery round runs only when the poll period has
\* passed since the previous round, when a full scan has fallen due, or
\* while no full scan is scheduled (nextFullScan is 0: from a round that
\* enumerated no peer to the next round that enumerates one).
C14_ThrottleScheduled ==
    [][RoundStep => (Throttled(now') \/ HouseFeedNextFullScan = 0)]_vars

\* A round has run 10 s after a rush, before the poll period has passed.
C14_Witness ==
    /\ last.op = "background" /\ last.round
    /\ past.rush > 0
    /\ now = past.rush + RushDelay
    /\ NextDiscovery = now + StartPollPeriod
    /\ discovered.peers # {}


(***************************************************************************)
(* C15: a round before nextFullScan sends a check to every enumerated      *)
(* peer, a round at or after it a full status; a round of full scans sets  *)
(* nextFullScan to now + 300, so that a round sends checks only when the   *)
(* last round of full scans is less than 300 s old (or a status response   *)
(* rushed the scan less than 10 s ago), and the next round is never more   *)
(* than a poll period away.                                                *)
(***************************************************************************)
RoundKind(t) == IF t < HouseFeedNextFullScan THEN "check" ELSE "status"

SentToAll(requests, peers, kind) ==
    /\ Len(requests) = Cardinality(peers)
    /\ \A p \in peers :
          \E i \in 1..Len(requests) : requests[i] = RequestOf(p, kind)

C15_Step ==
    RoundStep =>
       /\ SentToAll(last'.sent, discovered.peers, RoundKind(now'))
       /\ (RoundKind(now') = "status" /\ discovered.peers # {})
             => HouseFeedNextFullScan' = now' + FullScanPeriod
       /\ (RoundKind(now') = "check" /\ discovered.peers # {})
             => \/ past.full > 0 /\ now' < past.full + FullScanPeriod
                \/ past.rush > 0 /\ now' < past.rush + RushDelay

CleanupStep == last'.op = "background" /\ last'.cleanup

\* The entry of index i loses its name in the step.
ServerPrunedAt(i) ==
    /\ Servers[i].name # NoName
    /\ Servers'[i] = [Servers[i] EXCEPT !.timestamp = 0, !.name = NoName,
                                        !.adminurl = NoName]

PrunedEventsOf(name) ==
    {k \in 1..Len(last'.events) :
        last'.events[k] = ServerEvent(name, "PRUNED")}

\* The pass prunes each named server that stale(i) tells, with one PRUNED
\* event, and leaves the others as they are.
PassPrunes(stale(_)) ==
    /\ Len(Servers') = Len(Servers)
    /\ \A i \in 1..Len(Servers) :
          IF Servers[i].name # NoName /\ stale(i)
          THEN /\ ServerPrunedAt(i)
               /\ Cardinality(PrunedEventsOf(Servers[i].name)) = 1
          ELSE /\ Servers'[i] = Servers[i]
               /\ Servers[i].name = NoName
                     => \A k \in 1..Len(last'.events) :
                           last'.events[k].category # "CCTV"

\* Outside of a pass no server loses its name, and the passes are at most
\* 10 s apart.
PassesOnly ==
    /\ (~CleanupStep /\ Len(Servers') >= Len(Servers))
          => \A i \in 1..Len(Servers) :
                Servers[i].name # NoName => Servers'[i].name # NoName
    /\ (CleanupStep /\ past.cleanup > 0)
          => now' - past.cleanup <= CleanupPeriod

StaleBefore(i) == Servers[i].timestamp < now' - PruneDelay
StaleAt(i) == Servers[i].timestamp <= now' - PruneDelay

\* C17, as stated: a server is pruned (name and console cleared, timestamp
\* zeroed, one PRUNED event) by the first cleanup pass at which its
\* lastSeen < now - 180 and never while lastSeen >= now - 180; the passes
\* are at most 10 s apart and the event is not emitted again later.
C17_Prune ==
    [][(CleanupStep => PassPrunes(StaleBefore)) /\ PassesOnly]_vars

\* C17, amended: a server is pruned by the first cleanup pass at which its
\* lastSeen <= now - 180 and never while lastSeen > now - 180.
C17_PruneAt ==
    [][(CleanupStep => PassPrunes(StaleAt)) /\ PassesOnly]_vars

\* A pass has pruned the server that was last seen 180 s before it.
C17_Witness ==
    /\ last.op = "background" /\ last.cleanup
    /\ \E k \in 1..Len(last.events) :
          last.events[k] = ServerEvent(HostP1, "PRUNED")
    /\ Len(Servers) = 1
    /\ Servers[1].name = NoName
    /\ Servers[1].timestamp = 0
    /\ past.contact = now - PruneDelay


NamesOf(feeds) == {feeds[i].name : i \in 1..Len(feeds)}

KeepsName(i) ==
    /\ FeedTable'[i].name = FeedTable[i].name
    /\ FeedTable'[i].name # NoName
    /\ (FeedTable[i].timestamp # 0 /\ FeedTable'[i].timestamp = 0)
          => /\ FeedTable'[i].server = NoName
             /\ FeedTable'[i].url = NoName

C18_Step ==
    /\ Len(FeedTable') >= Len(FeedTable)
    /\ \A i \in 1..Len(FeedTable) : KeepsName(i)
    /\ NamesOf(FeedTable) \subseteq NamesOf(FeedTable')

C18_NamesKept == [][C18_Step]_vars

\* A cleanup pass has pruned a camera: the restored names, the declared one
\* and the two of the peer are all there, and none of them is live.
C18_Witness ==
    /\ last.op = "background" /\ last.cleanup
    /\ \E k \in 1..Len(last.events) :
          /\ last.events[k].category = "FEED"
          /\ last.events[k].action = "PRUNED"
    /\ NamesOf(FeedTable) = CameraNames
    /\ \A i \in 1..Len(FeedTable) : FeedTable[i].timestamp = 0


(***************************************************************************)
(* C19: the registration of a camera name that the registry does not hold  *)
(* leads to a snapshot request, and the list that is saved then holds      *)
(* every name of the registry, which the registered name never leaves; no  *)
(* snapshot is requested in the 60 s that follow the first call            *)
(* of the background function; the restore of the saved names makes an     *)
(* entry for each of them and does not mark the state as changed.          *)
(***************************************************************************)
Added(name) == [category |-> "FEED", name |-> name, action |-> "ADDED"]

\* A handler has just registered a name that the registry did not hold.
Registered ==
    /\ last.op \in {"scanned", "declare"}
    /\ HouseFeedStateChanged = now
    /\ \E k \in 1..Len(last.events), name \in CameraNames :
          last.events[k] = Added(name)

Saved(name) ==
    /\ last.op = "background" /\ last.snapshot
    /\ \E i \in 1..Len(housedvr_feed_save(FeedTable, StateBufferSize)) :
          housedvr_feed_save(FeedTable, StateBufferSize)[i] = name

\* A snapshot has just been requested, and every name of the registry is
\* in the list that is saved.
SavedAll == \A name \in NamesOf(FeedTable) : Saved(name)

C19_Step ==
    /\ last'.snapshot => now' > past'.first + StartPeriod
    /\ last'.op = "restore"
          => /\ HouseFeedStateChanged' = HouseFeedStateChanged
             /\ {CameraA, Ghost} \subseteq NamesOf(FeedTable')
             /\ \A i \in 1..Len(FeedTable') :
                   i > Len(FeedTable)
                     => /\ FeedTable'[i].timestamp = 0
                        /\ FeedTable'[i].server = NoName
    /\ (last'.op # "restore"
          /\ NamesOf(FeedTable') # NamesOf(FeedTable))
          => /\ HouseFeedStateChanged' = now'
             /\ Registered'
    /\ NamesOf(FeedTable) \subseteq NamesOf(FeedTable')

C19_Snapshot ==
    /\ Registered ~> SavedAll
    /\ [][C19_Step]_vars

\* The first snapshot, 61 s after the first call: the saved list holds a
\* restored name and the camera that the peer registered.
C19_Witness ==
    /\ Saved(CameraB)
    /\ Saved(Ghost)
    /\ now = past.first + StartPeriod + 1



(***************************************************************************)
(* housedvr_store.c. The archive is the tree <year>/<month>/<day> under    *)
(* the root: dirs holds its directories and files its files, each named by *)
(* the characters of its path from the root.                               *)
(***************************************************************************)
Digits == <<"0", "1", "2", "3", "4", "5", "6", "7", "8", "9">>

isdigit(c) == \E i \in 1..10 : Digits[i] = c

DigitValue(c) == (CHOOSE i \in 1..10 : Digits[i] = c) - 1

RECURSIVE AtoiFrom(_, _, _)
AtoiFrom(name, i, value) ==
    IF i > Len(name) \/ ~isdigit(name[i]) THEN value
    ELSE AtoiFrom(name, i + 1, value * 10 + DigitValue(name[i]))

\* atoi (name): the value of the digits that the name starts with.
atoi(name) == AtoiFrom(name, 1, 0)

RECURSIVE Dec(_)
\* "%d" of a number that is not negative.
Dec(n) ==
    IF n < 10 THEN <<Digits[n + 1]>>
    ELSE Append(Dec(n \div 10), Digits[(n % 10) + 1])

\* "%02d" of a number that is not negative.
Dec2(n) == IF n < 10 THEN <<"0">> \o Dec(n) ELSE Dec(n)

\* "%s/%s".
Join(parent, name) == parent \o <<"/">> \o name

\* Is path inside the directory parent, at any depth (the root is <<>>).
Inside(parent, path) ==
    IF parent = <<>> THEN path # <<>>
    ELSE /\ Len(path) > Len(parent) + 1
         /\ SubSeq(path, 1, Len(parent)) = parent
         /\ path[Len(parent) + 1] = "/"

\* What the name of path is within parent: readdir gives the entries of
\* parent only, so the name holds no '/'.
EntryName(parent, path) ==
    SubSeq(path, IF parent = <<>> THEN 1 ELSE Len(parent) + 2, Len(path))

Entries(ds, parent) ==
    {EntryName(parent, d) :
        d \in {e \in ds : /\ Inside(parent, e)
                          /\ \A i \in 1..Len(EntryName(parent, e)) :
                                EntryName(parent, e)[i] # "/"}}

\* An oldest that takes the newest entry.
StoreNewest(ds, parent) ==
    LET numbers == {atoi(IF n[1] = "0" THEN Tail(n) ELSE n) :
                       n \in {m \in Entries(ds, parent) : isdigit(m[1])}}
    IN  IF numbers = {} THEN 0 ELSE SetMax(numbers)

\* housedvr_store_oldest (parent): the lowest number among the
\* sub-directories whose name starts with a digit, 0 when parent cannot be
\* opened or when no number under 9999 is found. dirs holds directories
\* only (d_type == DT_DIR).
housedvr_store_oldest(ds, parent) ==
    LET numbers == {atoi(IF n[1] = "0" THEN Tail(n) ELSE n) :
                       n \in {m \in Entries(ds, parent) : isdigit(m[1])}}
        below == {i \in numbers : i < 9999}
    IN  IF parent # <<>> /\ parent \notin ds THEN 0
        ELSE IF below = {} THEN 0
        ELSE SetMin(below)

\* A delete that is a plain rmdir: a directory that holds something stays.
StoreRemoveEmpty(ds, fs, parent) ==
    IF \/ parent \notin ds
       \/ \E d \in ds : Inside(parent, d)
       \/ \E f \in DOMAIN fs : fs[f] # NoFile /\ Inside(parent, f.chars)
    THEN [dirs |-> ds, files |-> fs]
    ELSE [dirs |-> ds \ {parent}, files |-> fs]

\* housedvr_store_delete (parent): everything inside parent is removed, then
\* parent itself; nothing happens when parent is not a directory.
housedvr_store_delete(ds, fs, parent) ==
    IF parent \notin ds THEN [dirs |-> ds, files |-> fs]
    ELSE [dirs |-> {d \in ds : d # parent /\ ~Inside(parent, d)},
          files |-> [f \in DOMAIN fs |->
                        IF Inside(parent, f.chars) THEN NoFile ELSE fs[f]]]

\* housedvr_store_cleanup: one cycle. path is the directory it deleted (or
\* tried to) and event what it logged for it.
housedvr_store_cleanup(ds, fs) ==
    LET oldestyear == housedvr_store_oldest(ds, <<>>)
        year == Dec(oldestyear)
        oldestmonth == housedvr_store_oldest(ds, year)
        month == Join(year, Dec2(oldestmonth))
        oldestday == housedvr_store_oldest(ds, month)
        day == Join(month, Dec2(oldestday))
        Deleted(path, event) ==
            LET r == housedvr_store_delete(ds, fs, path)
            IN  [dirs |-> r.dirs, files |-> r.files,
                 path |-> path, event |-> event]
    IN  IF oldestyear = 0
        THEN [dirs |-> ds, files |-> fs, path |-> <<>>, event |-> "none"]
        ELSE IF oldestmonth = 0 THEN Deleted(year, "EMPTY")
        ELSE IF oldestday = 0 THEN Deleted(month, "EMPTY")
        ELSE Deleted(day, "TO FREE DISK SPACE")

RECURSIVE SumLen(_, _)
\* The bytes of the files of the set S.
SumLen(fs, S) ==
    IF S = {} THEN 0
    ELSE LET f == CHOOSE x \in S : TRUE
         IN  (IF fs[f] = NoFile THEN 0 ELSE Len(fs[f]))
                + SumLen(fs, S \ {f})

\* statvfs (HouseDvrStorage, &storage): the blocks that are still available
\* are those that neither the archive nor the rest holds.
statvfs(fs, d) ==
    LET held == d.other + SumLen(fs, DOMAIN fs)
        room == d.f_blocks * d.f_frsize - held
    IN  [f_blocks |-> d.f_blocks, f_frsize |-> d.f_frsize,
         f_bsize |-> d.f_bsize,
         f_bavail |-> IF room > 0 THEN room \div d.f_bsize ELSE 0]

housedvr_store_free(storage) == storage.f_bavail * storage.f_bsize

housedvr_store_total(storage) == storage.f_blocks * storage.f_frsize

housedvr_store_used(storage) ==
    ((housedvr_store_total(storage) - housedvr_store_free(storage)) * 100)
        \div housedvr_store_total(storage)

\* The day directories of the archive and their dates: a day directory is
\* <year>/<month>/<day>, three names that start with a digit.
Parts(path) ==
    LET cuts == {i \in 1..Len(path) : path[i] = "/"}
    IN  [slashes |-> cuts,
         first |-> IF cuts = {} THEN Len(path) + 1 ELSE SetMin(cuts),
         final |-> IF cuts = {} THEN 0 ELSE SetMax(cuts)]

IsDayDir(path) ==
    LET p == Parts(path)
    IN  /\ Cardinality(p.slashes) = 2
        /\ isdigit(path[1])
        /\ p.first + 1 < p.final
        /\ p.final < Len(path)
        /\ isdigit(path[p.first + 1])
        /\ isdigit(path[p.final + 1])

\* The date of a day directory: year, month and day as one number.
DateOf(path) ==
    LET p == Parts(path)
    IN  atoi(SubSeq(path, 1, p.first - 1)) * 10000
           + atoi(SubSeq(path, p.first + 1, p.final - 1)) * 100
           + atoi(SubSeq(path, p.final + 1, Len(path)))

DayDirs(ds) == {d \in ds : IsDayDir(d)}

YearDirs(ds) == {d \in ds : Parts(d).slashes = {} /\ isdigit(d[1])}

\* The limit of the loop of housedvr_store_background.
StoreCycleLimit == 10

\* A disk that is always found too full.
DiskFullAlways(used, max) == TRUE

\* The loop goes on (no break): used > HouseDvrMaxSpace.
DiskFull(used, max) == used > max

RECURSIVE StoreCycles(_, _, _, _, _, _)
\* The loop of housedvr_store_background from its pass i. Each cycle that
\* ran leaves an entry in the log: used% before, the directories before
\* and after, the directory deleted, the event, and used% after.
StoreCycles(ds, fs, d, max, i, log) ==
    LET used == housedvr_store_used(statvfs(fs, d))
        c == housedvr_store_cleanup(ds, fs)
        entry == [used |-> used, before |-> ds, after |-> c.dirs,
                  path |-> c.path, event |-> c.event,
                  left |-> housedvr_store_used(statvfs(c.files, d))]
    IN  IF i >= StoreCycleLimit \/ ~DiskFull(used, max)
        THEN [dirs |-> ds, files |-> fs, log |-> log]
        ELSE StoreCycles(c.dirs, c.files, d, max, i + 1, Append(log, entry))

\* localtime (&now), with UTC as the local time zone: the calendar date of
\* the day that holds the second t.
localtime(t) ==
    LET z == (t \div 86400) + 719468
        era == z \div 146097
        doe == z - era * 146097
        yoe == (doe - doe \div 1460 + doe \div 36524 - doe \div 146096)
                  \div 365
        doy == doe - (365 * yoe + yoe \div 4 - yoe \div 100)
        mp == (5 * doy + 2) \div 153
        month == IF mp < 10 THEN mp + 3 ELSE mp - 9
    IN  [tm_year |-> yoe + era * 400 + (IF month <= 2 THEN 1 ELSE 0) - 1900,
         tm_mon |-> month - 1,
         tm_mday |-> doy - (153 * mp + 2) \div 5 + 1]

\* housedvr_store_link (name, reference): the link name of the root points
\* to the day directory of the date.
housedvr_store_link(lnk, name, reference) ==
    [lnk EXCEPT ![name] =
        Join(Join(Dec(reference.tm_year + 1900), Dec2(reference.tm_mon + 1)),
             Dec2(reference.tm_mday))]

\* A tick that is due at every call.
StoreDueAlways(t, checked) == TRUE

\* now > lastcheck + 60.
StoreDue(t, checked) == t > checked + 60

\* housedvr_store_background (now) at second t. mounted: statvfs succeeds.
\* The clock has moved on, so the lastcheck of the transfers is in the
\* past.
housedvr_store_background(t, mounted) ==
    /\ ~crashed
    /\ t > now
    /\ now' = t
    /\ lastcheck' = "past"
    /\ LET due == StoreDue(t, StoreLastCheck)
           r == IF due /\ HouseDvrMaxSpace > 0 /\ mounted
                THEN StoreCycles(dirs, files, disk, HouseDvrMaxSpace,
                                 0, <<>>)
                ELSE [dirs |-> dirs, files |-> files, log |-> <<>>]
           today == localtime(t).tm_mday
       IN  /\ dirs' = r.dirs
           /\ files' = r.files
           /\ StoreLastCheck' = IF due THEN t ELSE StoreLastCheck
           /\ StoreLastDay' = IF due THEN today ELSE StoreLastDay
           /\ links' = IF due /\ today # StoreLastDay
                       THEN housedvr_store_link(
                               housedvr_store_link(links, "Today",
                                                   localtime(t)),
                               "Yesterday", localtime(t - 86400))
                       ELSE links
           /\ last' = Did(IF due THEN "store" ELSE "idle", "", <<>>, r.log)
           /\ past' = [past EXCEPT
                          !.store = IF r.log # <<>> THEN t ELSE @]
    /\ UNCHANGED <<TransferQueue, TransferConsumer, TransferProducer,
                   request, crashed, order>>
    /\ UNCHANGED <<Servers, FeedTable, HouseFeedNextFullScan,
                   HouseFeedStateChanged, StartPeriodEnd, NextCleanup,
                   NextDiscovery, FeedWatchDog, ServerWatchDog, submitted,
                   discovered, HouseFeedCheckPeriod>>
    /\ UNCHANGED <<HouseDvrMaxSpace, disk>>

(***************************************************************************)
(* The storage under every sequence of background calls, notifications     *)
(* and transfers, from archives that are over the threshold or not.        *)
(***************************************************************************)
\* The length in seconds of the runs of SpecStore.
StoreHorizon == 125

DayDir(year, month, day) == Join(Join(Dec(year), Dec2(month)), Dec2(day))

\* The recording of a day directory.
StoredFile(dir) == MkPath(Join(dir, <<"a">>), 0)

Day1231 == DayDir(2023, 12, 31)
Day0101 == DayDir(2024, 1, 1)
Day0102 == DayDir(2024, 1, 2)
\* A day directory that a feed named without the leading 0.
Day5 == Join(Join(Dec(2024), Dec2(1)), <<"5">>)

\* A file of the root that is named like a year followed by a month.
File202312 == MkPath(Dec(2023) \o Dec2(12), 0)

\* An archive: the day directories that hold a recording (held), those
\* that are empty (bare), and the plain files of the root.
StoreArchives ==
    {[held |-> {Day1231, Day0101, Day0102}, bare |-> {}, plain |-> {}],
     [held |-> {Day0102}, bare |-> {}, plain |-> {}],
     [held |-> {Day0102}, bare |-> {Day1231}, plain |-> {}],
     [held |-> {Day5}, bare |-> {}, plain |-> {}],
     [held |-> {Day0102}, bare |-> {}, plain |-> {File202312}],
     [held |-> {}, bare |-> {}, plain |-> {}]}

StoreFileNames ==
    FileNames \cup {File202312}
       \cup {StoredFile(d) : d \in {Day1231, Day0101, Day0102, Day5}}

StoreArchive(a) ==
    /\ files = [f \in StoreFileNames |->
                   IF f \in a.plain \/ \E d \in a.held : f = StoredFile(d)
                   THEN Zeros(2) ELSE NoFile]
    /\ dirs = UNION {PathDirs(StoredFile(d)) : d \in a.held \cup a.bare}

InitStore ==
    /\ TransferQueue = [i \in Indexes |-> EmptySlot]
    /\ TransferConsumer = 0
    /\ TransferProducer = 0
    /\ lastcheck = "past"
    /\ request = NoRequest
    /\ crashed = FALSE
    /\ order = <<>>
    /\ RegistryInit /\ OptionInit
    /\ discovered = Discovery(Feeds, 0)
    /\ StoreLastCheck = 0
    /\ StoreLastDay = 0
    /\ links = NoLinks
    /\ \E a \in StoreArchives : StoreArchive(a)
    /\ \E max \in {0, 30, 50}, other \in {0, 2, 4} :
          /\ HouseDvrMaxSpace = max
          /\ disk = Disk(10, other)

\* echttp calls the background function every second; a call before the
\* next tick is due does nothing, so the calls taken are the last second
\* where the tick is not due, the first where it is, and the next second
\* when the tick is overdue.
StoreCalls ==
    {t \in IF now < StoreLastCheck + 61
           THEN {StoreLastCheck + 60, StoreLastCheck + 61} ELSE {now + 1} :
        t > now /\ t <= Epoch + StoreHorizon}

NextStore ==
    \/ \E t \in StoreCalls, mounted \in BOOLEAN :
          housedvr_store_background(t, mounted)
    \/ /\ TransferProducer = 0
       /\ TransferQueue[0].state = TRANSFER_STATE_EMPTY
       /\ \E feed \in Feeds, d \in {Day1231, Day0102} :
             housedvr_transfer_notify(feed, StoredFile(d), 1)
    \/ housedvr_transfer_background
    \/ housedvr_transfer_ready(200, TRUE, 1, 0)
    \/ echttp_transfer
    \/ housedvr_transfer_complete
    \/ housedvr_transfer_failed

SpecStore == InitStore /\ [][NextStore]_vars

(***************************************************************************)
(* dvr_store_yearly: the response is the list of its 13 booleans, or the   *)
(* error 413 when the text does not fit WebBuffer.                         *)
(***************************************************************************)
WebBufferSize == 131072

\* stat (path, &info) succeeds: path names a directory or a file.
StatOf(ds, fs, path) ==
    IF path \in ds THEN "S_IFDIR"
    ELSE IF MkPath(path, 0) \in DOMAIN fs /\ fs[MkPath(path, 0)] # NoFile
    THEN "S_IFREG"
    ELSE "none"

\* The path that the loop of dvr_store_yearly gives to stat: "%s/%d" of
\* the year, then "%02d" of the month written at the end of it.
YearlyPath(year, month) == Dec(atoi(year)) \o Dec2(month)

\* found: stat succeeded and (st_mode & S_IFMT) != S_IFDIR.
YearlyFound(ds, fs, year, month) ==
    StatOf(ds, fs, YearlyPath(year, month)) \notin {"none", "S_IFDIR"}

RECURSIVE TextLen(_, _)
\* The length of ",true" and ",false" over the months from m.
TextLen(found, m) ==
    IF m > 12 THEN 0
    ELSE (IF found[m] THEN 5 ELSE 6) + TextLen(found, m + 1)

\* year is the parameter of the request: Absent when the request has none,
\* and atoi then reads through a null pointer (the process dies, or the
\* read gives no digit).
dvr_store_yearly(year) ==
    /\ ~crashed
    /\ \E fault \in BOOLEAN :
          LET given == IF year = Absent THEN <<>> ELSE year.chars
              found == [m \in 1..12 |-> YearlyFound(dirs, files, given, m)]
              cursor == 6 + TextLen(found, 1) + 1
              crash == year = Absent /\ fault
          IN  /\ fault => year = Absent
              /\ crashed' = crash
              /\ last' = [Did("yearly", "", <<>>, <<>>) EXCEPT
                             !.status = IF crash THEN 0
                                        ELSE IF cursor >= WebBufferSize
                                        THEN 413 ELSE 200,
                             !.body = IF crash \/ cursor >= WebBufferSize
                                      THEN <<>>
                                      ELSE <<FALSE>> \o found,
                             !.peer = given]
    /\ UNCHANGED <<TransferQueue, TransferConsumer, TransferProducer,
                   lastcheck, files, dirs, request, order>>
    /\ UNCHANGED <<now, Servers, FeedTable, HouseFeedNextFullScan,
                   HouseFeedStateChanged, StartPeriodEnd, NextCleanup,
                   NextDiscovery, FeedWatchDog, ServerWatchDog, submitted,
                   discovered, past>>
    /\ UNCHANGED storevars
    /\ UNCHANGED HouseFeedCheckPeriod

\* The years that the clients ask for.
YearParameters == {Name(Dec(2023)), Name(Dec(2024)), Absent}

NextYearly ==
    \/ \E year \in YearParameters : dvr_store_yearly(year)
    \/ \E t \in StoreCalls : housedvr_store_background(t, TRUE)

SpecYearly == InitStore /\ [][NextYearly]_vars



(***************************************************************************)
(* dvr_status and the three functions that write its sections. A text is   *)
(* kept as its length: snprintf returns the length of the whole text, and  *)
(* each function gives up (overflow) when that length reaches the size it  *)
(* was given.                                                              *)
(***************************************************************************)
\* sizeof(buffer) in dvr_status is 65537; the model keeps the buffer small
\* so that a few servers, cameras and transfers fill it.
StatusBufferSize == 230

\* HostName and houseportal_server().
HostName == Name(<<"d", "v", "r">>)
PortalServer == Name(<<"p", "x">>)

DecLen(n) == Len(Dec(n))

\* {"host":"%s","proxy":"%s","timestamp":%lld,"dvr":{
StatusHeader(t) ==
    9 + PathLen(HostName) + 11 + PathLen(PortalServer) + 14 + DecLen(t) + 8

RECURSIVE ServersText(_, _, _)
\* The entries of Servers from i on: listed says whether one was written
\* (prefix is then ","). %s{"name":"%s","url":"%s","space":"%d MB",
\* "timestamp":%ld}
ServersText(servers, i, listed) ==
    IF i > Len(servers) THEN 0
    ELSE IF servers[i].timestamp = 0
    THEN ServersText(servers, i + 1, listed)
    ELSE (IF listed THEN 1 ELSE 0)
            + 9 + PathLen(servers[i].name) + 9 + PathLen(servers[i].adminurl)
            + 11 + DecLen(servers[i].available) + 17
            + DecLen(servers[i].timestamp) + 1
            + ServersText(servers, i + 1, TRUE)

RECURSIVE FeedsText(_, _)
\* The entries of Feeds up to i (no entry of the table has a null name).
\* %s{"name":"%s","url":"%s","timestamp":%lld}
FeedsText(feeds, i) ==
    IF i = 0 THEN 0
    ELSE FeedsText(feeds, i - 1) + (IF i > 1 THEN 1 ELSE 0)
            + 9 + PathLen(feeds[i].name) + 9 + PathLen(feeds[i].url)
            + 14 + DecLen(feeds[i].timestamp) + 1

\* What a section function returns: the length it wrote, whether it gave
\* up, whether it called echttp_error (413), and whether it wrote outside
\* of the buffer or was given a negative size (wild).
Section(length, size, error) ==
    IF length >= size
    THEN [length |-> 0, overflow |-> TRUE, error |-> error,
          wild |-> size <= 0]
    ELSE [length |-> length, overflow |-> FALSE, error |-> FALSE,
          wild |-> FALSE]

\* A feed section that gives up without the error 413.
FeedStatusSilent(servers, feeds, size) ==
    Section(11 + ServersText(servers, 1, FALSE) + 1
               + 9 + FeedsText(feeds, Len(feeds)) + 1, size, FALSE)

\* housedvr_feed_status (buffer, size): "servers":[...],"feed":[...]
housedvr_feed_status(servers, feeds, size) ==
    Section(11 + ServersText(servers, 1, FALSE) + 1
               + 9 + FeedsText(feeds, Len(feeds)) + 1, size, TRUE)

\* housedvr_store_status (buffer, size):
\* "storage":[{"path":"%s", "used":%d, "size":%lld, "free":%lld}]
housedvr_store_status(fs, d, size) ==
    LET storage == statvfs(fs, d)
    IN  Section(20 + RootLen + 10 + DecLen(housedvr_store_used(storage))
                   + 9 + DecLen(housedvr_store_total(storage))
                   + 9 + DecLen(housedvr_store_free(storage)) + 2,
                size, FALSE)

\* The length of the feed URL of the slots ("http://p1").
FeedUrlLen == 9

\* ,"state":"failed" and its like.
StateText(state) ==
    IF state = TRANSFER_STATE_FAILED THEN 17
    ELSE IF state = TRANSFER_STATE_DONE THEN 15
    ELSE IF state = TRANSFER_STATE_ACTIVE THEN 17
    ELSE 0

\* %s{"feed":"%s", "path":"%s"%s}
ItemText(item, listed) ==
    (IF listed THEN 1 ELSE 0) + 9 + FeedUrlLen + 11 + PathLen(item.path)
       + 1 + StateText(item.state) + 1

RECURSIVE QueueText(_, _, _, _, _)
\* The two loops of housedvr_transfer_status as one walk around the ring,
\* from index: the history up to the consumer (pending is FALSE), then the
\* pending slots up to the producer. crash: a slot is in a state that its
\* region excludes.
QueueText(q, index, consumer, producer, w) ==
    LET item == q[index]
        next == housedvr_transfer_next(index)
        more == [w EXCEPT !.length = @ + ItemText(item, w.listed),
                         !.listed = TRUE]
    IN  IF ~w.pending
        THEN IF index = consumer
             THEN IF consumer = producer THEN w
                  ELSE QueueText(q, index, consumer, producer,
                                 [w EXCEPT !.pending = TRUE])
             ELSE IF item.state = TRANSFER_STATE_EMPTY
             THEN QueueText(q, next, consumer, producer, w)
             ELSE IF item.state \in
                        {TRANSFER_STATE_FAILED, TRANSFER_STATE_DONE}
             THEN QueueText(q, next, consumer, producer, more)
             ELSE [w EXCEPT !.crash = TRUE]
        ELSE IF item.state \in {TRANSFER_STATE_ACTIVE, TRANSFER_STATE_IDLE}
             THEN IF next = producer THEN more
                  ELSE QueueText(q, next, consumer, producer, more)
             ELSE [w EXCEPT !.crash = TRUE]

\* housedvr_transfer_status (buffer, size): "queue":[...]
housedvr_transfer_status(q, consumer, producer, size) ==
    LET first == IF producer = consumer
                 THEN housedvr_transfer_next(producer) ELSE producer
        w == QueueText(q, first, consumer, producer,
                       [length |-> 0, listed |-> FALSE, pending |-> FALSE,
                        crash |-> FALSE])
        r == Section(9 + w.length + 1, size, FALSE)
    IN  [length |-> r.length, overflow |-> r.overflow, error |-> r.error,
         wild |-> r.wild, crash |-> w.crash]

\* dvr_status: the status of the response (413 once echttp_error was
\* called, else 200), the sections that the returned text holds, whether
\* its end "}}" fits, and the traces.
dvr_status ==
    /\ ~crashed
    /\ \E fault \in BOOLEAN :
          LET size == StatusBufferSize
              c0 == StatusHeader(now)
              feed == housedvr_feed_status(Servers, FeedTable, size - c0)
              c1 == c0 + feed.length + 1
              store == housedvr_store_status(files, disk, size - c1)
              c2 == c1 + store.length + 1
              queue == housedvr_transfer_status(TransferQueue,
                          TransferConsumer, TransferProducer, size - c2)
              c3 == c2 + queue.length + 2
              wild == feed.wild \/ store.wild \/ queue.wild
              traces == [i \in 1..((IF feed.overflow THEN 1 ELSE 0)
                                    + (IF store.overflow THEN 1 ELSE 0)
                                    + (IF queue.overflow THEN 1 ELSE 0))
                            |-> "overflow"]
          IN  /\ fault => wild \/ queue.crash
              /\ queue.crash => fault
              /\ crashed' = fault
              /\ last' = [Did("status", "", <<>>, traces) EXCEPT
                            !.status = IF fault THEN 0
                                       ELSE IF feed.error THEN 413 ELSE 200,
                            !.body = [json |-> FALSE, returned |-> ~fault,
                                      servers |-> ~feed.overflow,
                                      storage |-> ~store.overflow,
                                      queue |-> ~queue.overflow,
                                      closed |-> c3 < size]]
    /\ UNCHANGED <<TransferQueue, TransferConsumer, TransferProducer,
                   lastcheck, files, dirs, request, order>>
    /\ UNCHANGED <<now, Servers, FeedTable, HouseFeedNextFullScan,
                   HouseFeedStateChanged, StartPeriodEnd, NextCleanup,
                   NextDiscovery, FeedWatchDog, ServerWatchDog, submitted,
                   discovered, past>>
    /\ UNCHANGED storevars
    /\ UNCHANGED HouseFeedCheckPeriod

\* The status asked at any time, with up to two cameras declared and the
\* recording of PathA notified and transferred.
NextStatus ==
    \/ dvr_status
    \/ \E devices \in {<<>>, <<KeyA>>, <<KeyA, KeyB>>} :
          dvr_feed_declare(HostP1, ConsoleUrl, StreamA, Space(12, "G"),
                           TRUE, devices, 0)
    \/ \E feed \in Feeds, size \in Sizes :
          housedvr_transfer_notify(feed, PathA, size)
    \/ housedvr_transfer_background
    \/ ClockTick
    \/ \E status \in {200, 404} : housedvr_transfer_ready(status, TRUE, 0, 0)
    \/ housedvr_transfer_complete
    \/ housedvr_transfer_failed

SpecStatus == InitFeed /\ [][NextStatus]_vars

(***************************************************************************)
(* C21: a declaration that lacks one of the parameters name, url,          *)
(* available or devices changes no server or camera entry and does not     *)
(* crash the process.                                                      *)
(***************************************************************************)
DeclareStep == last'.op = "declare"

Lacking(asked) ==
    ~(asked.name /\ asked.url /\ asked.available /\ asked.devices)

C21_Step ==
    (DeclareStep /\ Lacking(last'.body))
       => /\ Servers' = Servers
          /\ FeedTable' = FeedTable
          /\ ~crashed'

C21_Ignored == [][C21_Step]_vars


(***************************************************************************)
(* C22: the cleanup deletes the day directories oldest first: a day        *)
(* directory is deleted only when the archive holds no day directory of an *)
(* earlier date. From the archive {2023/12/31, 2024/01/01, 2024/01/02}     *)
(* kept over the threshold, the cycles delete 2023/12/31, then the emptied *)
(* month 2023/12, then the emptied year 2023, and only then 2024/01/01.    *)
(***************************************************************************)
\* The step is a call of housedvr_store_background (the only handler of
\* SpecStore that moves the clock), and a tick was due.
StoreCall == now' > now /\ last'.op \in {"store", "idle"}

StoreStep == StoreCall /\ last'.op = "store"

\* The cycle of a log entry deleted a day directory that was there.
DeletedDay(entry) ==
    /\ entry.event = "TO FREE DISK SPACE"
    /\ entry.path \in entry.before

OldestFirst(log) ==
    \A i \in 1..Len(log) :
        DeletedDay(log[i])
           => /\ log[i].path \notin log[i].after
              /\ \A d \in DayDirs(log[i].before) :
                    DateOf(d) >= DateOf(log[i].path)

\* The cycle of the log that deleted (or tried to delete) path, 0 if none.
CycleOf(log, path) ==
    IF \E i \in 1..Len(log) : log[i].path = path
    THEN SetMin({i \in 1..Len(log) : log[i].path = path}) ELSE 0

ExampleDays == {Day1231, Day0101, Day0102}

ExampleDirs == UNION {PathDirs(StoredFile(d)) : d \in ExampleDays}

Month2312 == Join(Dec(2023), Dec2(12))

\* The tick starts from the archive of the example and stays over the
\* threshold for four cycles at least.
ExampleTick ==
    /\ StoreStep
    /\ dirs = ExampleDirs
    /\ Len(last'.events) >= 4

C22_Step ==
    /\ StoreStep => OldestFirst(last'.events)
    /\ ExampleTick
          => LET log == last'.events
             IN  /\ CycleOf(log, Day1231) = 1
                 /\ CycleOf(log, Month2312) = 2
                 /\ CycleOf(log, Dec(2023)) = 3
                 /\ CycleOf(log, Day0101) = 4

C22_OldestFirst == [][C22_Step]_vars

\* The statement as the specification words it: 2024/01/01 goes second,
\* the emptied month and year after it.
C22_StepAsWorded ==
    /\ StoreStep => OldestFirst(last'.events)
    /\ ExampleTick
          => LET log == last'.events
             IN  /\ CycleOf(log, Day1231) = 1
                 /\ CycleOf(log, Day0101) = 2
                 /\ CycleOf(log, Month2312) > 2
                 /\ CycleOf(log, Dec(2023)) > CycleOf(log, Month2312)

C22_DaysThenParents == [][C22_StepAsWorded]_vars

\* A tick has run four cycles from the archive of the example: the fourth
\* deleted 2024/01/01, and 2024/01/02 is the day directory left.
C22_Witness ==
    /\ last.op = "store"
    /\ Len(last.events) >= 4
    /\ last.events[1].before = ExampleDirs
    /\ last.events[1].path = Day1231
    /\ last.events[4].path = Day0101
    /\ DayDirs(last.events[4].after) = {Day0102}


(***************************************************************************)
(* C23: one storage tick runs at most 10 cleanup cycles and ends; it runs  *)
(* no cycle when the threshold is 0 or used% is not over it, it stops as   *)
(* soon as used% is not over it, and two ticks that run a cleanup cycle    *)
(* are 60 s apart at least.                                                *)
(***************************************************************************)
StoreUsed == housedvr_store_used(statvfs(files, disk))

C23_Step ==
    StoreCall
       => LET log == last'.events
          IN  /\ Len(log) <= 10
              /\ (HouseDvrMaxSpace = 0 \/ StoreUsed <= HouseDvrMaxSpace)
                    => log = <<>>
              /\ \A i \in 1..Len(log) :
                    /\ log[i].used > HouseDvrMaxSpace
                    /\ i < Len(log) => log[i].left > HouseDvrMaxSpace
              /\ (log # <<>> /\ Len(log) < 10)
                    => StoreUsed' <= HouseDvrMaxSpace
              /\ (log # <<>> /\ past.store > 0) => now' - past.store >= 60

OldestDays(ds) ==
    {d \in DayDirs(ds) : \A o \in DayDirs(ds) : DateOf(d) <= DateOf(o)}

Lowered(entry) == entry.left < entry.used

NoYearLeft(entry) == YearDirs(entry.after) = {}

PickedGone(entry) == entry.event # "none" /\ entry.path \notin entry.after

OldestDayGone(entry) ==
    \A d \in OldestDays(entry.before) : d \notin entry.after

C24_Step ==
    StoreStep
       => \A i \in 1..Len(last'.events) :
             LET entry == last'.events[i]
             IN  Lowered(entry) \/ PickedGone(entry) \/ NoYearLeft(entry)

C24_Progress == [][C24_Step]_vars

\* The statement as the specification words it: the oldest day directory
\* of the archive is gone.
C24_StepAsWorded ==
    StoreStep
       => \A i \in 1..Len(last'.events) :
             LET entry == last'.events[i]
             IN  Lowered(entry) \/ OldestDayGone(entry) \/ NoYearLeft(entry)

C24_OldestDayGone == [][C24_StepAsWorded]_vars

\* A cycle has deleted a month that held no day: used% is what it was, and
\* the oldest day directory and its year are still there.
C24_Witness ==
    /\ last.op = "store"
    /\ \E i \in 1..Len(last.events) :
          LET entry == last.events[i]
          IN  /\ entry.event = "EMPTY"
              /\ entry.path \in entry.before
              /\ PickedGone(entry)
              /\ ~Lowered(entry)
              /\ ~NoYearLeft(entry)
              /\ OldestDays(entry.before) # {}
              /\ ~OldestDayGone(entry)


(***************************************************************************)
(* C25: in every interleaving of the transfer callbacks and the storage    *)
(* ticks, the cleanup never deletes the day directory that holds the file  *)
(* of the ACTIVE transfer; when that directory is the only day directory   *)
(* left, the tick ends its cycles without deleting it.                     *)
(***************************************************************************)
\* The directories that hold the file of a transfer in progress.
ActiveDirs ==
    UNION {ParentDirs(TransferQueue[i].path) :
              i \in {j \in Indexes :
                        TransferQueue[j].state = TRANSFER_STATE_ACTIVE}}

C25_Step ==
    StoreStep => \A d \in ActiveDirs : d \in dirs => d \in dirs'

C25_ActiveKept == [][C25_Step]_vars


(***************************************************************************)
(* C27: for every archive and every year Y, /dvr/storage/yearly?year=Y     *)
(* returns 13 booleans: element 0 is false and element m (1..12) is true   *)
(* exactly when <root>/Y/<mm> exists and is a directory.                   *)
(***************************************************************************)
YearlyStep == last'.op = "yearly" /\ last'.peer # <<>>

C27_Step ==
    YearlyStep
       => /\ last'.status = 200
          /\ Len(last'.body) = 13
          /\ last'.body[1] = FALSE
          /\ \A m \in 1..12 :
                last'.body[m + 1] = (Join(last'.peer, Dec2(m)) \in dirs)

C27_Months == [][C27_Step]_vars


(***************************************************************************)
(* C26: when a section of /dvr/status (servers and feed, storage, queue)   *)
(* does not fit the space left in the buffer, the response is the error    *)
(* 413 with an overflow trace, and no partial body is returned.            *)
(***************************************************************************)
StatusStep == last'.op = "status" /\ last'.body.returned

Overflowed(body) == ~(body.servers /\ body.storage /\ body.queue)

C26_Step ==
    (StatusStep /\ Overflowed(last'.body))
       => /\ last'.status = 413
          /\ last'.events # <<>>

C26_Overflow413 == [][C26_Step]_vars


(***************************************************************************)
(* C28: notify(feed, path, size) for a path found in the history region.   *)
(* If a matching history slot is DONE with the same size, the queue is     *)
(* left as it is. If every matching history slot is FAILED, or DONE with   *)
(* another size (no pending slot matches, the path has no "..", the queue  *)
(* is not full), a new IDLE slot is appended whatever the local file is.   *)
(***************************************************************************)
\* The slots of a region that hold the path.
Matching(region, path) ==
    {i \in region : StateOf(i) # TRANSFER_STATE_EMPTY
                    /\ TransferQueue[i].path = path}

DoneSame(i, size) ==
    StateOf(i) = TRANSFER_STATE_DONE /\ TransferQueue[i].size = size

\* The queue after the call is the queue before it.
LeftAlone(r) ==
    r.queue = TransferQueue /\ r.producer = TransferProducer

\* The call appended one IDLE slot for the path, at the producer.
AppendedIdle(r, path, size) ==
    /\ r.producer = housedvr_transfer_next(TransferProducer)
    /\ r.queue = [TransferQueue EXCEPT
                     ![TransferProducer] = NewSlot(r.queue[TransferProducer].feed,
                                                   path, size)]

C28_History ==
    \A feed \in Feeds, n \in Notifications :
        LET path == n[1]
            size == n[2]
            r == Notified(feed, path, size)
            found == Matching(History, path)
        IN  (~crashed /\ found # {})
               => /\ (\E i \in found : DoneSame(i, size)) => LeftAlone(r)
                  /\ (/\ \A i \in found : ~DoneSame(i, size)
                      /\ Matching(Pending, path) = {}
                      /\ ~HasDotDot(path)
                      /\ ~IsFull)
                        => AppendedIdle(r, path, size)


(***************************************************************************)
(* C29: notify(feed, path, size) for a path found in the pending region,   *)
(* once the history has not settled the call. An ACTIVE slot of the same   *)
(* size makes the call a no-op; otherwise an IDLE slot has its size set to *)
(* the notified size and nothing is appended; an ACTIVE slot of another    *)
(* size with no IDLE slot for the path makes the call append one IDLE slot *)
(* (no "..", queue not full). So a path is held by at most one ACTIVE and  *)
(* one IDLE slot at a time.                                                *)
(***************************************************************************)
ActiveSame(i, size) ==
    StateOf(i) = TRANSFER_STATE_ACTIVE /\ TransferQueue[i].size = size

IdleFor(path) ==
    {i \in Matching(Pending, path) : StateOf(i) = TRANSFER_STATE_IDLE}

\* The call changed the size of one IDLE slot of the path and nothing else.
Resized(r, path, size) ==
    /\ r.producer = TransferProducer
    /\ \E i \in IdleFor(path) :
          r.queue = [TransferQueue EXCEPT ![i].size = size]

\* The slots in a given state that hold a given stored path.
Holding(state, path) ==
    {i \in Indexes : StateOf(i) = state /\ TransferQueue[i].path = path}

OnePerPath ==
    \A i \in Indexes :
        /\ Cardinality(Holding(TRANSFER_STATE_ACTIVE,
                               TransferQueue[i].path)) <= 1
        /\ Cardinality(Holding(TRANSFER_STATE_IDLE,
                               TransferQueue[i].path)) <= 1

PendingCases ==
    \A feed \in Feeds, n \in Notifications :
        LET path == n[1]
            size == n[2]
            r == Notified(feed, path, size)
            found == Matching(Pending, path)
            same == \E i \in found : ActiveSame(i, size)
        IN  (/\ ~crashed
             /\ found # {}
             /\ \A i \in Matching(History, path) : ~DoneSame(i, size))
               => /\ same => LeftAlone(r)
                  /\ (~same /\ IdleFor(path) # {}) => Resized(r, path, size)
                  /\ (~same /\ IdleFor(path) = {}
                         /\ ~HasDotDot(path) /\ ~IsFull)
                        => AppendedIdle(r, path, size)

PathHuge == MkPath(<<"d", "/", "h">>, FullPathSize - RootLen - 3)

NotifiedPaths == Notifications \cup {<<PathHuge, 1>>}

\* strcmp (cursor->path, path) differs for every slot of the ring.
NoSlotHolds(path) == \A i \in Indexes : TransferQueue[i].path # path

\* The file of the path is in the archive with the notified size.
Whole(path, size) ==
    /\ path \in DOMAIN files
    /\ files[path] # NoFile
    /\ Len(files[path]) = size

LocalDecides(feed, path, size) ==
    LET r == Notified(feed, path, size)
    IN  /\ r.appended <=> ~Whole(path, size)
        /\ r.appended => AppendedIdle(r, path, size)
        /\ Whole(path, size) => LeftAlone(r)

C30_Local ==
    \A feed \in Feeds, n \in NotifiedPaths :
        (/\ ~crashed
         /\ NoSlotHolds(n[1])
         /\ ~HasDotDot(n[1])
         /\ ~IsFull
         /\ FullPathFits(n[1]))
           => LocalDecides(feed, n[1], n[2])

\* The statement without the condition on the length of the path.
C30_AnyLength ==
    \A feed \in Feeds, n \in NotifiedPaths :
        (/\ ~crashed
         /\ NoSlotHolds(n[1])
         /\ ~HasDotDot(n[1])
         /\ ~IsFull)
           => LocalDecides(feed, n[1], n[2])

\* Both outcomes in one state: the file of d/a is whole for one size and
\* not for the other, and no slot holds d/a any more.
C30_Witness ==
    /\ ~crashed /\ ~IsFull
    /\ NoSlotHolds(PathA)
    /\ \E feed \in Feeds, size \in Sizes :
          /\ Whole(PathA, size)
          /\ Notified(feed, PathA, size).how = "local"
          /\ Notified(feed, PathA, 3 - size).appended


(***************************************************************************)
(* C31: the offset of every slot is 0 in every reachable state, so no      *)
(* request carries a Range header: a file that exists locally is asked for *)
(* in full, and when its transfer ends DONE after a status 200 (with a     *)
(* Content-Length, or with data left for the completion callback) the      *)
(* local file holds bytes of the response only, from byte 0.               *)
(***************************************************************************)
OffsetZero == \A i \in Indexes : TransferQueue[i].offset = 0

NoRange == request.phase # "none" => request.range = 0

\* The step that ends the ACTIVE transfer as DONE after a status 200.
Done200 ==
    /\ StateOf(TransferConsumer) = TRANSFER_STATE_ACTIVE
    /\ TransferQueue'[TransferConsumer].state = TRANSFER_STATE_DONE
    /\ request.phase = "body"
    /\ request.status = 200

\* The file holds no byte of what it held before the transfer (the bytes
\* of the older file are 0, the bytes of a response are not).
Rewritten(content) ==
    content # NoFile /\ \A j \in 1..Len(content) : content[j] # 0

C31_Step ==
    LET path == TransferQueue[TransferConsumer].path
    IN  /\ OffsetZero' /\ NoRange'
        /\ (Done200 /\ (request.length >= 0 \/ request.tail > 0))
              => Rewritten(files'[path])

C31_StepAsWorded ==
    LET path == TransferQueue[TransferConsumer].path
    IN  /\ OffsetZero' /\ NoRange'
        /\ Done200 => Rewritten(files'[path])

C31_WitnessDone ==
    /\ StateOf(0) = TRANSFER_STATE_DONE
    /\ TransferQueue[0].path = PathA
    /\ ParentDirs(PathA) \subseteq dirs
    /\ files[PathA] = Body(1, 2)


(***************************************************************************)
(* C32: whenever a slot becomes DONE, the local file at its path holds the *)
(* complete body of the response (the bytes given to the header callback,  *)
(* the bytes streamed and the bytes given to the completion callback, in   *)
(* that order), for every 2xx status and every split of the body. The body *)
(* of a response with a Content-Length of n is the bytes 1..n.             *)
(***************************************************************************)
DoneStep ==
    /\ StateOf(TransferConsumer) = TRANSFER_STATE_ACTIVE
    /\ TransferQueue'[TransferConsumer].state = TRANSFER_STATE_DONE
    /\ request.phase = "body"

C32_Step ==
    (DoneStep /\ request.length >= 0)
       => files'[TransferQueue[TransferConsumer].path]
             = Body(1, request.length)

C32_WholeBody == [][C32_Step]_vars


(***************************************************************************)
(* C33: from every reachable state (all of which satisfy the invariant of  *)
(* the queue), notify(feed, path, size) returns without reaching           *)
(* crashandburn, for every feed, every path (the empty string and paths    *)
(* longer than a slot can hold included) and every size.                   *)
(***************************************************************************)
C33_NotifyNoCrash ==
    \A feed \in Feeds, n \in Notifications :
        ~crashed => ~Notified(feed, n[1], n[2]).crash


(***************************************************************************)
(* C34: under every interleaving of notifications, ticks, redirects that   *)
(* submit the request again and response callbacks (one completion per     *)
(* submitted request), the callbacks of a transfer find the slot they were *)
(* submitted for at TransferConsumer and ACTIVE: no step of a callback     *)
(* reaches crashandburn.                                                   *)
(***************************************************************************)
\* A step of housedvr_transfer_ready, of echttp streaming the body or of
\* housedvr_transfer_complete: the only steps that change an exchange that
\* is under way.
CallbackStep == request.phase # "none" /\ request' # request

\* The exchange under way belongs to the ACTIVE slot at TransferConsumer.
OriginActive ==
    request.phase # "none"
       => /\ request.origin = TransferConsumer
          /\ StateOf(TransferConsumer) = TRANSFER_STATE_ACTIVE

C34_Step ==
    /\ (~crashed /\ CallbackStep) => (OriginActive /\ ~crashed')
    /\ ~crashed' => OriginActive'

C34_Callbacks == [][C34_Step]_vars

\* A redirect is about to submit the request again while another file
\* waits behind the ACTIVE slot.
C34_Witness ==
    /\ ~crashed
    /\ request.phase = "body" /\ request.status = 302
    /\ request.origin = TransferConsumer
    /\ StateOf(TransferConsumer) = TRANSFER_STATE_ACTIVE
    /\ \E i \in Pending : StateOf(i) = TRANSFER_STATE_IDLE
    /\ \E i \in History : StateOf(i) \in Finished


(***************************************************************************)
(* C35: processing a status response of peer P prunes (clears the server,  *)
(* the stream URL and the timestamp of) exactly the cameras attributed to  *)
(* P that the response does not list and whose timestamp is older than     *)
(* now - HouseFeedCheckPeriod + 1; it changes no camera attributed to      *)
(* another peer and no other server entry.                                 *)
(***************************************************************************)
\* A step of housedvr_feed_scanned that went as far as the list of feeds.
ListedStep ==
    /\ last'.op = "scanned"
    /\ submitted' # submitted
    /\ last'.status = 200
    /\ ScannedUntil(last'.body) \in {"recordings", "end"}

\* The names of the cameras that a status response lists.
ListedNames(body) ==
    {DeviceName(body.host, body.feeds[k].key) :
        k \in {j \in 1..Len(body.feeds) : body.feeds[j].string}}

Outdated(feed) == feed.timestamp < now - HouseFeedCheckPeriod + 1

ZombieFrame(i, body) ==
    LET before == FeedTable[i]
        after == FeedTable'[i]
        mine == before.server = body.host
        listed == before.name \in ListedNames(body)
    IN  /\ (mine /\ ~listed /\ Outdated(before)) => after = Forgotten(before)
        /\ (mine /\ ~listed /\ ~Outdated(before)) => after = before
        /\ (mine /\ listed) => after.timestamp = now
        /\ (~mine /\ before.server # NoName) => after = before
        /\ (~mine /\ ~listed) => after = before

ServerFrame(j, body) ==
    (Servers[j].name # NoName /\ Servers[j].name # body.host)
       => Servers'[j] = Servers[j]

C35_Step ==
    ListedStep
       => /\ \A i \in 1..Len(FeedTable) : ZombieFrame(i, last'.body)
          /\ \A j \in 1..Len(Servers) : ServerFrame(j, last'.body)

C35_Zombies == [][C35_Step]_vars

\* A status of p1 that lists camera b only has just pruned camera a of p1,
\* while the camera of p2 is still attributed to p2.
C35_Witness ==
    /\ last.op = "scanned" /\ last.body = MovedBody
    /\ \E k \in 1..Len(last.events) :
          /\ last.events[k].category = "FEED"
          /\ last.events[k].action = "PRUNED"
          /\ last.events[k].name = CameraA
    /\ \E i \in 1..Len(FeedTable) :
          /\ FeedTable[i].name = CameraB /\ FeedTable[i].timestamp = now
    /\ \E i \in 1..Len(FeedTable) :
          /\ FeedTable[i].server = HostP2 /\ FeedTable[i].timestamp > 0
          /\ FeedTable[i].timestamp < now - HouseFeedCheckPeriod + 1

\* A camera that the status does not list is kept: it was seen less than
\* HouseFeedCheckPeriod - 1 seconds ago.
C35_WitnessKept ==
    /\ last.op = "scanned" /\ last.body = MovedBody
    /\ \E i \in 1..Len(FeedTable) :
          /\ FeedTable[i].name = CameraA
          /\ FeedTable[i].server = HostP1
          /\ FeedTable[i].timestamp > 0


(***************************************************************************)
(* Status responses whose recordings cover every form of a tuple: three    *)
(* elements or a fourth one that is true, false or not a boolean, with a   *)
(* timestamp of now - 60 or now - 61.                                      *)
(***************************************************************************)
StableHorizon == 3

StableRecordings(size) ==
    {Recording(age, PathA, size, fourth) :
        age \in {StableAge, StableAge + 1},
        fourth \in {"none", "true", "false", "other"}}

RecordingLists ==
    {<<r>> : r \in StableRecordings(1)}
        \cup (StableRecordings(1) \X StableRecordings(2))

StabilityBodies ==
    {StatusBody(HostP1, 43, ConsoleUrl, Space(12, "G"), TRUE,
                <<FeedOf(KeyA, StreamA)>>, TRUE, recs) :
        recs \in RecordingLists}

NextStable ==
    \/ \E peers \in SUBSET Feeds, accepted \in SUBSET Feeds :
          /\ now < Epoch + StableHorizon
          /\ dvr_background(now + 1, peers, accepted)
    \/ \E peer \in Feeds, body \in StabilityBodies, rush \in BOOLEAN :
          housedvr_feed_scanned(peer, 200, body, 0, rush)

SpecStable == InitFeed /\ [][NextStable]_vars

(***************************************************************************)
(* C36: a recordings tuple of a status response is passed to notify if and *)
(* only if it is stable: its 4th element is the boolean true, or it has no *)
(* 4th element and its timestamp is older than now - 60. The tuples are    *)
(* passed last one first.                                                  *)
(***************************************************************************)
StableTuple(rec) ==
    \/ rec.fourth = "true"
    \/ rec.fourth = "none" /\ rec.age > StableAge

\* Stable as worded: a 4th element that is not a boolean counts as none.
StableAsWorded(rec) ==
    IF rec.fourth \in {"true", "false"} THEN rec.fourth = "true"
    ELSE rec.age > StableAge

RECURSIVE PassedOn(_, _, _)
\* The stable tuples of list[1..n], last one first (stable as worded, or
\* as defined above).
PassedOn(list, n, worded) ==
    IF n = 0 THEN <<>>
    ELSE (IF (IF worded THEN StableAsWorded(list[n])
              ELSE StableTuple(list[n]))
          THEN <<[path |-> list[n].path, size |-> list[n].size]>>
          ELSE <<>>) \o PassedOn(list, n - 1, worded)

Forwarded(done) ==
    [k \in 1..Len(done.forwarded) |->
        [path |-> done.forwarded[k].path, size |-> done.forwarded[k].size]]

RecordingsStep ==
    /\ last'.op = "scanned"
    /\ submitted' # submitted
    /\ last'.status = 200
    /\ ScannedUntil(last'.body) = "end"
    /\ ~crashed'

C36_Step ==
    RecordingsStep
       => Forwarded(last') = PassedOn(last'.body.recordings,
                                      Len(last'.body.recordings), FALSE)

C36_Stable == [][C36_Step]_vars

C36_StepAsWorded ==
    RecordingsStep
       => Forwarded(last') = PassedOn(last'.body.recordings,
                                      Len(last'.body.recordings), TRUE)

C36_StableAsWorded == [][C36_StepAsWorded]_vars

\* One response with a tuple that is stable by its 4th element although it
\* is young, passed on, and one that is old but marked false, left out.
C36_Witness ==
    /\ last.op = "scanned" /\ ~crashed
    /\ last.body.recordings = <<Recording(StableAge + 1, PathA, 1, "false"),
                                Recording(StableAge, PathA, 2, "true")>>
    /\ Len(last.forwarded) = 1
    /\ last.forwarded[1].size = 2


(***************************************************************************)
(* C37: a watchdog is the time of the first of an unbroken run of cleanup  *)
(* passes that found the table not empty and no entry with a timestamp     *)
(* newer than now - 180. A pass that finds a live camera (server) sets the *)
(* feed (server) watchdog back to 0, no other step changes a watchdog, and *)
(* the process aborts only in a pass that finds no live entry more than    *)
(* 300 seconds after the time its watchdog holds.                          *)
(***************************************************************************)
\* A cleanup pass, at time now'.
CleanupPass == last'.op = "background" /\ last'.cleanup /\ now' > now

\* An entry of the table has a timestamp newer than now' - 180.
SomeLive(table) ==
    \E i \in 1..Len(table) : table[i].timestamp > now' - PruneDelay

\* What a pass does to a watchdog.
DogAfter(dog, table) ==
    IF SomeLive(table) THEN 0
    ELSE IF Len(table) = 0 THEN dog
    ELSE IF dog = 0 THEN now'
    ELSE dog

\* The pass finds the watchdog older than 300 seconds and no live entry.
Expired(dog, table) ==
    /\ ~SomeLive(table) /\ Len(table) > 0
    /\ dog # 0 /\ now' - dog > WatchDogDelay

C37_Step ==
    /\ (CleanupPass /\ ~crashed')
          => /\ FeedWatchDog' = DogAfter(FeedWatchDog, FeedTable)
             /\ ServerWatchDog' = DogAfter(ServerWatchDog, Servers)
    /\ ~CleanupPass
          => /\ FeedWatchDog' = FeedWatchDog
             /\ ServerWatchDog' = ServerWatchDog
    /\ (~crashed /\ crashed')
          => /\ CleanupPass
             /\ \/ Expired(FeedWatchDog, FeedTable)
                \/ Expired(ServerWatchDog, Servers)

C37_WatchDogs == [][C37_Step]_vars

\* A pass has just found a live server after the server watchdog had been
\* started at the prune of the server: the watchdog is back to 0.
C37_Witness ==
    /\ ~crashed
    /\ last.op = "background" /\ last.cleanup
    /\ ServerWatchDog = 0
    /\ past.contact > past.first + PruneDelay + CleanupPeriod
    /\ past.contact > now - CleanupPeriod
    /\ \E j \in 1..Len(Servers) : Servers[j].timestamp = past.contact

\* The abort: no live camera for more than 300 seconds of passes.
C37_WitnessAbort ==
    /\ crashed
    /\ last.op = "background" /\ last.cleanup
    /\ FeedWatchDog # 0
    /\ now - FeedWatchDog > WatchDogDelay


(***************************************************************************)
(* Responses that the handlers reject, next to responses that they take:   *)
(* every rejected status body carries a stable recording.                  *)
(***************************************************************************)
RejectHorizon == 215

RejectedBodies ==
    {[StableBody EXCEPT !.json = FALSE],
     [StableBody EXCEPT !.host = Absent],
     [StableBody EXCEPT !.console = Absent],
     [StableBody EXCEPT !.hasFeeds = FALSE],
     [StableBody EXCEPT !.feeds = <<>>]}

RejectResponses ==
    ({200} \X (RejectedBodies \cup {ColdStartBody, LegacyBody}))
        \cup ({404} \X {BadJson})

RejectChecks ==
    ({200} \X {CheckBody(HostP1, TRUE, 42), CheckBody(HostP1, FALSE, 0),
               CheckBody(Absent, TRUE, 42),
               [CheckBody(HostP1, TRUE, 42) EXCEPT !.json = FALSE]})
        \cup ({401, 404} \X {CheckBody(Absent, TRUE, 42)})

\* The peers answer in the first seconds, and again once the entries of the
\* first seconds have been pruned.
Awake == now < Epoch + ChangeHorizon \/ now >= Epoch + RejectHorizon - 30

NextReject ==
    \/ NamesTick(RejectHorizon)
    \/ \E peer \in Feeds, r \in RejectResponses :
          /\ now < Epoch + RejectHorizon /\ Awake
          /\ housedvr_feed_scanned(peer, r[1], r[2], 0, FALSE)
    \/ \E peer \in Feeds, r \in RejectChecks, accepted \in BOOLEAN :
          /\ now < Epoch + RejectHorizon /\ Awake
          /\ housedvr_feed_checked(peer, r[1], r[2], accepted)

SpecReject == InitFeed /\ [][NextReject]_vars

(***************************************************************************)
(* C38: a status or check response of peer P that is rejected (status      *)
(* other than 200, JSON that does not parse, no host, no console, no feeds *)
(* or an empty list of feeds) forwards no recording to the transfer queue  *)
(* and changes no server or camera entry attributed to another peer; the   *)
(* response of another peer is then processed as it would have been        *)
(* without the response of P.                                              *)
(***************************************************************************)
RejectedScan ==
    /\ last'.op = "scanned" /\ submitted' # submitted
    /\ \/ last'.status # 200
       \/ ScannedUntil(last'.body) \in {"server", "feeds"}

RejectedCheck ==
    /\ last'.op = "checked" /\ submitted' # submitted
    /\ \/ last'.status # 200
       \/ ~last'.body.json
       \/ last'.body.host = Absent
       \/ ~last'.body.hasUpdated

\* The entry that a table of servers holds for a name, if any.
EntryFor(servers, name) ==
    {servers[j] : j \in {k \in 1..Len(servers) : servers[k].name = name}}

CamerasOf(feeds, host) ==
    {feeds[i] : i \in {k \in 1..Len(feeds) : feeds[k].server = host}}

\* What a status response with body does for its host, from given tables.
OutcomeOf(servers, feeds, body) ==
    LET srv == housedvr_feed_server(servers, body.host, body.updated,
                                    body.console, body.space, now, 0)
        reg == RegisterAll([feeds |-> feeds, changed |-> FALSE,
                            events |-> <<>>], body.host, body.feeds, 1, now)
        zom == housedvr_feed_zombies(reg.feeds, body.host, now)
    IN  [entry |-> EntryFor(srv.servers, body.host), new |-> srv.new,
         cameras |-> CamerasOf(zom.feeds, body.host),
         events |-> reg.events \o zom.events,
         uptodate |-> {u \in {0, 42, 43} :
                          housedvr_feed_uptodate(servers, body.host, u)}]

OthersKept(host) ==
    /\ \A i \in 1..Len(FeedTable) :
          FeedTable[i].server # host => FeedTable'[i] = FeedTable[i]
    /\ \A j \in 1..Len(Servers) :
          Servers[j].name \notin {NoName, host} => Servers'[j] = Servers[j]
    /\ \A body \in {ColdStartBody, StableBody, LegacyBody} :
          body.host # host
             => OutcomeOf(Servers', FeedTable', body)
                   = OutcomeOf(Servers, FeedTable, body)

NothingForwarded ==
    /\ TransferQueue' = TransferQueue
    /\ TransferProducer' = TransferProducer
    /\ last'.forwarded = <<>>
    /\ HouseFeedNextFullScan' = HouseFeedNextFullScan

C38_Step ==
    (RejectedScan \/ RejectedCheck)
       => NothingForwarded /\ OthersKept(last'.body.host)

C38_Rejected == [][C38_Step]_vars

(***************************************************************************)
(* The names of the servers: status scans of a peer with a short host      *)
(* name, of a legacy service and of a peer whose host name is one          *)
(* character longer than ServerRegistration.name holds, with the saved     *)
(* names restored and a legacy declaration when the process starts.        *)
(***************************************************************************)
UniqueHorizon == 215

\* The server entries of a run that is explored.
MaxServers == 3

\* A host name of 128 characters.
HostLong == MkPath(<<"p", "3">>, NameBufSize - 2)

LongBody ==
    StatusBody(HostLong, 45, ConsoleUrl, Space(12, "G"), TRUE,
               <<FeedOf(KeyA, StreamA), FeedOf(KeyB, StreamB)>>, TRUE, <<>>)

UniqueBodies == {ColdStartBody, LegacyBody, LongBody}

UniqueDeclarations ==
    {<<HostP2, Absent, StreamB, Space(7, "K"), TRUE, <<KeyB>>>>,
     <<HostLong, ConsoleUrl, StreamA, Space(12, "G"), TRUE, <<KeyA>>>>}

\* The peers answer in the first seconds, and again once the entries of the
\* first seconds have been pruned.
UniqueAwake ==
    now < Epoch + ChangeHorizon \/ now >= Epoch + UniqueHorizon - 30

NextUnique ==
    \/ NamesTick(UniqueHorizon)
    \/ \E peer \in Feeds, body \in UniqueBodies :
          /\ now < Epoch + UniqueHorizon /\ UniqueAwake
          /\ housedvr_feed_scanned(peer, 200, body, 0, FALSE)
          /\ Len(Servers') <= MaxServers
    \/ \E peer \in Feeds, host \in {HostP1, HostLong}, accepted \in BOOLEAN :
          /\ now < Epoch + UniqueHorizon /\ UniqueAwake
          /\ housedvr_feed_checked(peer, 200, CheckBody(host, TRUE, 45),
                                   accepted)
    \/ /\ now = Epoch
       /\ housedvr_feed_restore(<<CameraA, Ghost>>)
    \/ \E d \in UniqueDeclarations :
          /\ now = Epoch
          /\ dvr_feed_declare(d[1], d[2], d[3], d[4], d[5], d[6], 0)
          /\ Len(Servers') <= MaxServers

SpecUnique == InitFeed /\ [][NextUnique]_vars

(***************************************************************************)
(* C39: in every reachable state of the registry no two server entries     *)
(* have the same non-empty name and no two camera entries have the same    *)
(* name, whatever sequence of status scans, legacy declarations, restores  *)
(* and prunes (with reuse of the pruned entries) produced the state.       *)
(***************************************************************************)
ServersUnique ==
    \A i, j \in 1..Len(Servers) :
        (i # j /\ Servers[i].name # NoName)
            => Servers[i].name # Servers[j].name

CamerasUnique ==
    \A i, j \in 1..Len(FeedTable) :
        i # j => FeedTable[i].name # FeedTable[j].name

C39_Unique == ServersUnique /\ CamerasUnique

\* The part about the cameras alone.
C39_Cameras == CamerasUnique

\* The servers whose name fits in ServerRegistration.name.
C39_ShortNames ==
    \A i, j \in 1..Len(Servers) :
        (i # j /\ Servers[i].name # NoName
               /\ Servers[i].name \in {HostP1, HostP2})
            => Servers[i].name # Servers[j].name

\* A pruned entry has been used again, and every table has two entries.
C39_Witness ==
    /\ Len(Servers) >= 2 /\ Len(FeedTable) >= 2
    /\ now >= Epoch + UniqueHorizon - 30
    /\ \E i \in 1..Len(Servers) :
          Servers[i].name # NoName /\ Servers[i].timestamp = now

(***************************************************************************)
(* A peer that goes away and comes back: the list of the discovered        *)
(* services changes twice, the period of the checks is the default or one  *)
(* second (-dvr-check=1), and the peer answers in the first seconds, after *)
(* the start period and once its entries have been pruned.                 *)
(***************************************************************************)
ReturnHorizon == 213

\* The value of the option -dvr-check.
ShortCheckPeriod == 1

\* How many times the list of the discovered services changes.
MaxReturns == 2

ReturnBodies == {ColdStartBody, StableBody}

\* The seconds at the start, after the start period and at the end, in
\* which the list changes and the peer answers.
ReturnWindow == 3

ReturnAwake ==
    \/ now < Epoch + ReturnWindow
    \/ /\ now > Epoch + StartPeriod
       /\ now <= Epoch + StartPeriod + ReturnWindow
    \/ now >= Epoch + ReturnHorizon - ReturnWindow

InitReturn ==
    /\ TransferQueue = [i \in Indexes |-> EmptySlot]
    /\ TransferConsumer = 0
    /\ TransferProducer = 0
    /\ lastcheck = "past"
    /\ Archive(NoFile)
    /\ request = NoRequest
    /\ crashed = FALSE
    /\ order = <<>>
    /\ RegistryInit
    /\ StoreInit
    /\ HouseFeedCheckPeriod \in {DefaultCheckPeriod, ShortCheckPeriod}
    /\ \E peers \in SUBSET Feeds : discovered = Discovery(peers, 0)

NextReturn ==
    \/ NamesTick(ReturnHorizon)
    \/ \E peers \in SUBSET Feeds :
          /\ discovered.changes < MaxReturns
          /\ now < Epoch + ReturnHorizon /\ ReturnAwake
          /\ housediscover(peers)
    \/ \E peer \in Feeds, body \in ReturnBodies, rush \in BOOLEAN :
          /\ now < Epoch + ReturnHorizon /\ ReturnAwake
          /\ housedvr_feed_scanned(peer, 200, body, 0, rush)
    \/ \E peer \in Feeds, accepted \in BOOLEAN :
          /\ now < Epoch + ReturnHorizon /\ ReturnAwake
          /\ housedvr_feed_checked(peer, 200, CheckBody(HostP1, TRUE, 42),
                                   accepted)

SpecReturn == InitReturn /\ [][NextReturn]_vars

(***************************************************************************)
(* C40: after the entry of a server has been pruned, the next /check       *)
(* response (status 200, with host and updated) of that peer makes the     *)
(* handler issue a /status request, also when its updated stamp is the one *)
(* that the pruned entry still holds, and the status response that the     *)
(* handler takes puts the server and its cameras back in the registry; and *)
(* after a discovery round that enumerated no peer, the next round that    *)
(* enumerates a peer issues a /status request to every peer it            *)
(* enumerates, unless a status response has rushed the full scan since:    *)
(* the round that runs before the rushed time issues /check requests.      *)
(***************************************************************************)
\* No entry of the registry carries the name of the host.
Unknown(host) ==
    \A i \in 1..Len(Servers) :
        Servers[i].name = NoName \/ Servers[i].name # host

CheckOfUnknown ==
    (CheckAnswer /\ Unknown(last'.body.host))
        => last'.sent = <<RequestOf(last'.peer, "status")>>

TakenScan ==
    /\ last'.op = "scanned" /\ submitted' # submitted
    /\ last'.status = 200
    /\ ScannedUntil(last'.body) \notin {"server", "feeds"}
    /\ ~crashed'

BackWithCameras ==
    TakenScan
        => /\ \E i \in 1..Len(Servers') :
                 /\ Servers'[i].name = Stored(last'.body.host, NameBufSize)
                 /\ Servers'[i].timestamp = now
           /\ \A k \in 1..Len(last'.body.feeds) :
                 last'.body.feeds[k].string
                    => \E j \in 1..Len(FeedTable') :
                          /\ FeedTable'[j].name =
                                DeviceName(last'.body.host,
                                           last'.body.feeds[k].key)
                          /\ FeedTable'[j].server =
                                Stored(last'.body.host, UrlBufSize)
                          /\ FeedTable'[j].url =
                                Stored(last'.body.feeds[k].url, UrlBufSize)
                          /\ FeedTable'[j].timestamp = now

\* The last round enumerated no peer, and this step is a round.
RoundAfterEmpty ==
    last'.op = "background" /\ last'.round /\ now' > now /\ past.empty

\* A status response has rushed the scan since the last round.
RushInForce ==
    /\ past.rush > 0 /\ past.rush >= past.round
    /\ HouseFeedNextFullScan = past.rush + RushDelay

RoundOfScans ==
    RoundAfterEmpty
        => \A k \in 1..Len(last'.sent) :
              last'.sent[k].kind =
                 IF RushInForce /\ now' < past.rush + RushDelay
                 THEN "check" ELSE "status"

C40_Step == CheckOfUnknown /\ BackWithCameras /\ RoundOfScans

C40_StepAsWorded ==
    /\ CheckOfUnknown /\ BackWithCameras
    /\ RoundAfterEmpty
          => \A k \in 1..Len(last'.sent) : last'.sent[k].kind = "status"

C40_WitnessBack ==
    /\ last.op = "scanned" /\ last.status = 200
    /\ past.contact = now /\ now > past.first + PruneDelay
    /\ \E i \in 1..Len(Servers) :
          Servers[i].name = last.body.host /\ Servers[i].timestamp = now
    /\ \E j \in 1..Len(FeedTable) :
          FeedTable[j].server = last.body.host /\ FeedTable[j].timestamp = now

\* A round that enumerates a peer, one second after the rush of a status
\* response: a round of checks, with the full scan due later.
C40_WitnessRound ==
    /\ last.op = "background" /\ last.round
    /\ ~past.empty /\ past.round = now
    /\ past.rush = now - 1
    /\ HouseFeedNextFullScan = past.rush + RushDelay
    /\ last.sent # <<>>
    /\ \A k \in 1..Len(last.sent) : last.sent[k].kind = "check"
    /\ discovered.changes = MaxReturns

====
